---- MODULE Spec2Model ----
(***************************************************************************)
(* ShipLog: the changelog parser (parseChangelogText) and the three        *)
(* renderers (generateMarkdown, generateJSON, generateHTML).                *)
(*                                                                         *)
(* A JavaScript string is modelled as a sequence of characters, each       *)
(* character a one-character TLA+ string.  Characters outside ASCII are    *)
(* written by their code point ("U+2022" is the bullet).  The text of a    *)
(* template literal that only the HTML renderer emits is one symbol of the *)
(* output sequence (the Html... definitions).                              *)
(***************************************************************************)
EXTENDS Integers, Sequences, FiniteSets, TLC

\* ------------------------------------------------------------------ bounds
\* Lines of the text handed to parseChangelogText.
MaxLines == 4
\* Releases of the ReleaseSet handed to a renderer.
MaxReleases == 2
\* Changes of the ReleaseSet handed to a renderer, all releases together.
MaxChanges == 3

\* ------------------------------------------------------------ characters
Digits == {"0", "1", "2", "3", "4", "5", "6", "7", "8", "9"}
\* \s and String.prototype.trim agree on what is white space.
WhiteSpace == {" ", "\t"}
UpperCase == <<"A", "B", "C", "D", "E", "F", "G", "H", "I", "J", "K", "L", "M",
               "N", "O", "P", "Q", "R", "S", "T", "U", "V", "W", "X", "Y", "Z">>
LowerCase == <<"a", "b", "c", "d", "e", "f", "g", "h", "i", "j", "k", "l", "m",
               "n", "o", "p", "q", "r", "s", "t", "u", "v", "w", "x", "y", "z">>

LowerOf == [c \in {UpperCase[i] : i \in 1..26} |->
              LowerCase[CHOOSE i \in 1..26 : UpperCase[i] = c]]

toLowerChar(c) == IF c \in DOMAIN LowerOf THEN LowerOf[c] ELSE c

toLowerCase(s) == [i \in 1..Len(s) |-> toLowerChar(s[i])]

\* s[i], or the empty string past the end of s.
At(s, i) == IF i >= 1 /\ i <= Len(s) THEN s[i] ELSE ""

\* s.substring(i - 1): the characters of s from the i-th on.
From(s, i) == SubSeq(s, i, Len(s))

startsWith(s, p) == Len(s) >= Len(p) /\ SubSeq(s, 1, Len(p)) = p

includes(s, p) ==
  \E i \in 1..(Len(s) + 1) : i + Len(p) - 1 <= Len(s) /\ SubSeq(s, i, i + Len(p) - 1) = p

\* The index of the first character at or after i that is not in set cs
\* (Len(s) + 1 when there is none): a greedy cs* from position i.
RECURSIVE SkipWhile(_, _, _)
SkipWhile(s, i, cs) ==
  IF i <= Len(s) /\ s[i] \in cs THEN SkipWhile(s, i + 1, cs) ELSE i

\* An optional single character of cs at position i.
SkipOne(s, i, cs) == IF At(s, i) \in cs THEN i + 1 ELSE i

trim(s) ==
  LET keep == {i \in 1..Len(s) : s[i] \notin WhiteSpace}
  IN IF keep = {} THEN <<>>
     ELSE SubSeq(s, CHOOSE i \in keep : \A j \in keep : i <= j,
                    CHOOSE i \in keep : \A j \in keep : i >= j)

\* The k-th smallest member of a set of numbers.
Nth(S, k) == CHOOSE x \in S : Cardinality({y \in S : y < x}) = k - 1

\* text.split('\n'): the pieces between the line feeds.
split(s) ==
  LET nl == {i \in 1..Len(s) : s[i] = "\n"}
      n == Cardinality(nl)
      cut(k) == IF k = 0 THEN 0 ELSE IF k = n + 1 THEN Len(s) + 1 ELSE Nth(nl, k)
  IN [k \in 1..(n + 1) |-> SubSeq(s, cut(k - 1) + 1, cut(k) - 1)]

\* Mutant of replaceSlashes: replace('/', '-'), the first slash only.
replaceFirstSlash(s) ==
  [i \in 1..Len(s) |->
     IF s[i] = "/" /\ (\A j \in 1..(i - 1) : s[j] # "/") THEN "-" ELSE s[i]]

\* s.replace(/\//g, '-')
replaceSlashes(s) == [i \in 1..Len(s) |-> IF s[i] = "/" THEN "-" ELSE s[i]]

\* ---------------------------------------------------------- change taxonomy
\* The keys of `grouped`, in the order Object.entries visits them.
ChangeType == <<"added", "changed", "fixed", "removed", "security", "deprecated">>

ChangeTypeSet == {ChangeType[i] : i \in 1..Len(ChangeType)}

\* changeTypeConfig[type].label
label(type) ==
  CASE type = "added" -> <<"A", "d", "d", "e", "d">>
    [] type = "changed" -> <<"C", "h", "a", "n", "g", "e", "d">>
    [] type = "fixed" -> <<"F", "i", "x", "e", "d">>
    [] type = "removed" -> <<"R", "e", "m", "o", "v", "e", "d">>
    [] type = "security" -> <<"S", "e", "c", "u", "r", "i", "t", "y">>
    [] type = "deprecated" -> <<"D", "e", "p", "r", "e", "c", "a", "t", "e", "d">>

\* changeTypeConfig[type].emoji, as code points.
emoji(type) ==
  CASE type = "added" -> <<"U+2728">>
    [] type = "changed" -> <<"U+1F504">>
    [] type = "fixed" -> <<"U+1F41B">>
    [] type = "removed" -> <<"U+1F5D1", "U+FE0F">>
    [] type = "security" -> <<"U+1F512">>
    [] type = "deprecated" -> <<"U+26A0", "U+FE0F">>

\* --------------------------------------------------------------- renderers
\* Mutant of groupChanges: each change is put in front of the list of its
\* type.
RECURSIVE groupChangesFront(_, _, _)
groupChangesFront(changes, i, grouped) ==
  IF i > Len(changes) THEN grouped
  ELSE groupChangesFront(changes, i + 1,
                         [grouped EXCEPT ![changes[i].type] = <<changes[i]>> \o @])

\* The loop that fills `grouped`: each change is pushed on the list of its
\* type.
RECURSIVE groupChanges(_, _, _)
groupChanges(changes, i, grouped) ==
  IF i > Len(changes) THEN grouped
  ELSE groupChanges(changes, i + 1,
                    [grouped EXCEPT ![changes[i].type] = Append(@, changes[i])])

\* `grouped` after the loop over release.changes.
groupedOf(release) == groupChanges(release.changes, 1, [t \in ChangeTypeSet |-> <<>>])

\* The first text of generateMarkdown.
MdTitle ==
  <<"#", " ", "C", "h", "a", "n", "g", "e", "l", "o", "g", "\n", "\n", "A", "l", "l", " ", "n", "o", "t", "a", "b", "l", "e", " ", "c", "h", "a", "n", "g", "e", "s", " ", "t", "o", " ", "t", "h", "i", "s", " ", "p", "r", "o", "j", "e", "c", "t", " ", "w", "i", "l", "l", " ", "b", "e", " ", "d", "o", "c", "u", "m", "e", "n", "t", "e", "d", " ", "i", "n", " ", "t", "h", "i", "s", " ", "f", "i", "l", "e", ".", "\n", "\n">>

\* The loop over the items of one type.
RECURSIVE mdItems(_, _)
mdItems(items, i) ==
  IF i > Len(items) THEN <<>>
  ELSE <<"-", " ">> \o items[i].description \o <<"\n">> \o mdItems(items, i + 1)

\* Mutant of mdSections: the test items.length > 0 is left out.
RECURSIVE mdSectionsUnguarded(_, _)
mdSectionsUnguarded(grouped, k) ==
  IF k > Len(ChangeType) THEN <<>>
  ELSE <<"#", "#", "#", " ">> \o label(ChangeType[k]) \o <<"\n", "\n">> \o mdItems(grouped[ChangeType[k]], 1)
         \o <<"\n">> \o mdSectionsUnguarded(grouped, k + 1)

\* The loop over Object.entries(grouped), from the k-th entry on.
RECURSIVE mdSections(_, _)
mdSections(grouped, k) ==
  IF k > Len(ChangeType) THEN <<>>
  ELSE (IF Len(grouped[ChangeType[k]]) > 0
          THEN <<"#", "#", "#", " ">> \o label(ChangeType[k]) \o <<"\n", "\n">>
                 \o mdItems(grouped[ChangeType[k]], 1) \o <<"\n">>
          ELSE <<>>)
       \o mdSections(grouped, k + 1)

\* Mutant of mdRelease: a release without changes adds nothing.
mdReleaseSkipEmpty(release) ==
  IF release.changes = <<>> THEN <<>>
  ELSE <<"#", "#", " ", "[">> \o release.version \o <<"]", " ", "-", " ">> \o release.date \o <<"\n", "\n">>
         \o mdSections(groupedOf(release), 1)

\* What generateMarkdown adds for one release.
mdRelease(release) ==
  <<"#", "#", " ", "[">> \o release.version \o <<"]", " ", "-", " ">> \o release.date \o <<"\n", "\n">>
    \o mdSections(groupedOf(release), 1)

RECURSIVE mdReleases(_, _)
mdReleases(releases, i) ==
  IF i > Len(releases) THEN <<>>
  ELSE mdRelease(releases[i]) \o mdReleases(releases, i + 1)

generateMarkdown(releases) == MdTitle \o mdReleases(releases, 1)

\* typeColors[type]
typeColors(type) ==
  CASE type = "added" -> <<"#", "2", "2", "c", "5", "5", "e">>
    [] type = "changed" -> <<"#", "3", "b", "8", "2", "f", "6">>
    [] type = "fixed" -> <<"#", "e", "a", "b", "3", "0", "8">>
    [] type = "removed" -> <<"#", "e", "f", "4", "4", "4", "4">>
    [] type = "security" -> <<"#", "a", "8", "5", "5", "f", "7">>
    [] type = "deprecated" -> <<"#", "f", "9", "7", "3", "1", "6">>

\* The texts of the template literals of generateHTML, each one symbol of
\* the output.  HtmlHead stands for the 28 lines from the doctype to the
\* subtitle, HtmlTail for the three closing lines.
HtmlHead == "<!DOCTYPE html>\n<html lang=\"en\">\n<head>...</head>\n<body>\n  <div class=\"container\">\n    <h1>Changelog</h1>\n    <p class=\"subtitle\">...</p>\n"
HtmlReleaseOpen == "    <div class=\"release\">\n      <div class=\"release-header\">\n        <span class=\"version\">v"
HtmlVersionClose == "</span>\n        <span class=\"date\">"
HtmlDateClose == "</span>\n      </div>\n"
HtmlSectionOpen == "      <div class=\"section\">\n        <span class=\"section-title\" style=\"background: "
HtmlColorMid == "20; color: "
HtmlColorClose == ";\">"
HtmlTitleClose == "</span>\n        <ul class=\"changes\">\n"
HtmlItemOpen == "          <li>"
HtmlItemClose == "</li>\n"
HtmlSectionClose == "        </ul>\n      </div>\n"
HtmlReleaseClose == "    </div>\n"
HtmlTail == "  </div>\n</body>\n</html>"

RECURSIVE htmlItems(_, _)
htmlItems(items, i) ==
  IF i > Len(items) THEN <<>>
  ELSE <<HtmlItemOpen>> \o items[i].description \o <<HtmlItemClose>> \o htmlItems(items, i + 1)

RECURSIVE htmlSections(_, _)
htmlSections(grouped, k) ==
  IF k > Len(ChangeType) THEN <<>>
  ELSE (IF Len(grouped[ChangeType[k]]) > 0
          THEN <<HtmlSectionOpen>> \o typeColors(ChangeType[k]) \o <<HtmlColorMid>>
                 \o typeColors(ChangeType[k]) \o <<HtmlColorClose>>
                 \o emoji(ChangeType[k]) \o <<" ">> \o label(ChangeType[k])
                 \o <<HtmlTitleClose>>
                 \o htmlItems(grouped[ChangeType[k]], 1)
                 \o <<HtmlSectionClose>>
          ELSE <<>>)
       \o htmlSections(grouped, k + 1)

\* What generateHTML adds for one release.
htmlRelease(release) ==
  <<HtmlReleaseOpen>> \o release.version \o <<HtmlVersionClose>> \o release.date
    \o <<HtmlDateClose>> \o htmlSections(groupedOf(release), 1) \o <<HtmlReleaseClose>>

RECURSIVE htmlReleases(_, _)
htmlReleases(releases, i) ==
  IF i > Len(releases) THEN <<>>
  ELSE htmlRelease(releases[i]) \o htmlReleases(releases, i + 1)

generateHTML(releases) == <<HtmlHead>> \o htmlReleases(releases, 1) \o <<HtmlTail>>

\* ------------------------------------------------------------------- JSON
\* A JSON value is a string, an array or an object:
\*   [k |-> "str", v |-> characters], [k |-> "arr", v |-> values],
\*   [k |-> "obj", v |-> members [key |-> characters, val |-> value]].
\* The type tag of a change, as the characters of its string.
typeName(type) ==
  CASE type = "added" -> <<"a", "d", "d", "e", "d">>
    [] type = "changed" -> <<"c", "h", "a", "n", "g", "e", "d">>
    [] type = "fixed" -> <<"f", "i", "x", "e", "d">>
    [] type = "removed" -> <<"r", "e", "m", "o", "v", "e", "d">>
    [] type = "security" -> <<"s", "e", "c", "u", "r", "i", "t", "y">>
    [] type = "deprecated" -> <<"d", "e", "p", "r", "e", "c", "a", "t", "e", "d">>

Str(cs) == [k |-> "str", v |-> cs]

\* The object { releases } of generateJSON, its members in property order.
changeValue(c) ==
  [k |-> "obj", v |-> <<[key |-> <<"i", "d">>, val |-> Str(c.id)],
                        [key |-> <<"t", "y", "p", "e">>, val |-> Str(typeName(c.type))],
                        [key |-> <<"d", "e", "s", "c", "r", "i", "p", "t", "i", "o", "n">>, val |-> Str(c.description)]>>]

releaseValue(r) ==
  [k |-> "obj",
   v |-> <<[key |-> <<"v", "e", "r", "s", "i", "o", "n">>, val |-> Str(r.version)],
           [key |-> <<"d", "a", "t", "e">>, val |-> Str(r.date)],
           [key |-> <<"c", "h", "a", "n", "g", "e", "s">>,
            val |-> [k |-> "arr",
                     v |-> [i \in 1..Len(r.changes) |-> changeValue(r.changes[i])]]]>>]

releasesValue(releases) ==
  [k |-> "arr", v |-> [i \in 1..Len(releases) |-> releaseValue(releases[i])]]

\* QuoteJSONString: the quotation mark, the reverse solidus and the control
\* characters are escaped.
quoteChar(c) ==
  CASE c = "\"" -> <<"\\", "\"">>
    [] c = "\\" -> <<"\\", "\\">>
    [] c = "\n" -> <<"\\", "n">>
    [] c = "\t" -> <<"\\", "t">>
    [] OTHER -> <<c>>

\* The characters a to b of cs, each one quoted: a run that holds no
\* character to escape is copied as it is.
RECURSIVE quoteChars(_, _, _)
quoteChars(cs, a, b) ==
  IF \A i \in a..b : quoteChar(cs[i]) = <<cs[i]>> THEN SubSeq(cs, a, b)
  ELSE IF a = b THEN quoteChar(cs[a])
  ELSE quoteChars(cs, a, (a + b) \div 2) \o quoteChars(cs, (a + b) \div 2 + 1, b)

quote(cs) == <<"\"">> \o quoteChars(cs, 1, Len(cs)) \o <<"\"">>

Spaces(n) == [i \in 1..n |-> " "]

\* JSON.stringify(value, null, 2) of a value that stands at indentation
\* `indent`.
RECURSIVE stringify(_, _)
RECURSIVE stringifyElements(_, _, _)
RECURSIVE stringifyMembers(_, _, _)
stringifyElements(vs, i, indent) ==
  IF i > Len(vs) THEN <<>>
  ELSE (IF i > 1 THEN <<",", "\n">> ELSE <<>>) \o Spaces(indent) \o stringify(vs[i], indent)
         \o stringifyElements(vs, i + 1, indent)

stringifyMembers(ms, i, indent) ==
  IF i > Len(ms) THEN <<>>
  ELSE (IF i > 1 THEN <<",", "\n">> ELSE <<>>) \o Spaces(indent) \o quote(ms[i].key) \o <<":", " ">>
         \o stringify(ms[i].val, indent) \o stringifyMembers(ms, i + 1, indent)

stringify(value, indent) ==
  IF value.k = "str" THEN quote(value.v)
  ELSE IF value.k = "arr"
    THEN IF value.v = <<>> THEN <<"[", "]">>
         ELSE <<"[", "\n">> \o stringifyElements(value.v, 1, indent + 2) \o <<"\n">>
                \o Spaces(indent) \o <<"]">>
  ELSE IF value.v = <<>> THEN <<"{", "}">>
       ELSE <<"{", "\n">> \o stringifyMembers(value.v, 1, indent + 2) \o <<"\n">>
              \o Spaces(indent) \o <<"}">>

\* Mutant of generateJSON: the array is serialized without the object
\* around it, JSON.stringify(releases, null, 2).
generateJSONBare(releases) == stringify(releasesValue(releases), 0)

generateJSON(releases) ==
  stringify([k |-> "obj", v |-> <<[key |-> <<"r", "e", "l", "e", "a", "s", "e", "s">>, val |-> releasesValue(releases)]>>],
            0)

\* JSON.parse: a value read at position i is [ok, val, pos], pos the index
\* after it.
JsonSpace == {" ", "\n", "\t", "\r"}

Bad == [ok |-> FALSE, val |-> Str(<<>>), pos |-> 0]

\* The character an escape \c stands for ("" for none).
unescape(c) ==
  CASE c = "\"" -> "\""
    [] c = "\\" -> "\\"
    [] c = "/" -> "/"
    [] c = "n" -> "\n"
    [] c = "t" -> "\t"
    [] OTHER -> ""

\* The characters of a string, from position i (after the opening
\* quotation mark) to the closing one, read up to the next quotation mark
\* or reverse solidus at a time.
RECURSIVE parseString(_, _, _)
parseString(s, i, acc) ==
  LET marks == {"\"", "\\"}
      p == CHOOSE p \in i..Len(s) : s[p] \in marks /\ \A q \in i..(p - 1) : s[q] \notin marks
      plain == SubSeq(s, i, p - 1)
  IN IF \A q \in i..Len(s) : s[q] \notin marks THEN Bad
     ELSE IF \E q \in i..(p - 1) : s[q] \in {"\n", "\t"} THEN Bad
     ELSE IF s[p] = "\"" THEN [ok |-> TRUE, val |-> Str(acc \o plain), pos |-> p + 1]
     ELSE IF unescape(At(s, p + 1)) = "" THEN Bad
     ELSE parseString(s, p + 2, acc \o plain \o <<unescape(s[p + 1])>>)

RECURSIVE parseValue(_, _)
RECURSIVE parseElements(_, _, _)
RECURSIVE parseMembers(_, _, _)
\* The elements of an array from position i, the ones read so far in acc.
parseElements(s, i, acc) ==
  LET e == parseValue(s, i)
      j == SkipWhile(s, e.pos, JsonSpace)
  IN IF ~e.ok THEN Bad
     ELSE IF At(s, j) = "," THEN parseElements(s, j + 1, Append(acc, e.val))
     ELSE IF At(s, j) = "]"
       THEN [ok |-> TRUE, val |-> [k |-> "arr", v |-> Append(acc, e.val)], pos |-> j + 1]
     ELSE Bad

\* The members of an object from position i.
parseMembers(s, i, acc) ==
  LET a == SkipWhile(s, i, JsonSpace)
      key == parseString(s, a + 1, <<>>)
      c == SkipWhile(s, key.pos, JsonSpace)
      e == parseValue(s, c + 1)
      j == SkipWhile(s, e.pos, JsonSpace)
      member == [key |-> key.val.v, val |-> e.val]
  IN IF At(s, a) # "\"" \/ ~key.ok \/ At(s, c) # ":" \/ ~e.ok THEN Bad
     ELSE IF At(s, j) = "," THEN parseMembers(s, j + 1, Append(acc, member))
     ELSE IF At(s, j) = "}"
       THEN [ok |-> TRUE, val |-> [k |-> "obj", v |-> Append(acc, member)], pos |-> j + 1]
     ELSE Bad

parseValue(s, i) ==
  LET a == SkipWhile(s, i, JsonSpace)
      b == SkipWhile(s, a + 1, JsonSpace)
  IN IF At(s, a) = "\"" THEN parseString(s, a + 1, <<>>)
     ELSE IF At(s, a) = "[" /\ At(s, b) = "]"
       THEN [ok |-> TRUE, val |-> [k |-> "arr", v |-> <<>>], pos |-> b + 1]
     ELSE IF At(s, a) = "[" THEN parseElements(s, a + 1, <<>>)
     ELSE IF At(s, a) = "{" /\ At(s, b) = "}"
       THEN [ok |-> TRUE, val |-> [k |-> "obj", v |-> <<>>], pos |-> b + 1]
     ELSE IF At(s, a) = "{" THEN parseMembers(s, a + 1, <<>>)
     ELSE Bad

\* JSON.parse(text): the value, when the text is one value and white space.
JSONparse(s) ==
  LET r == parseValue(s, 1)
  IN IF r.ok /\ SkipWhile(s, r.pos, JsonSpace) = Len(s) + 1 THEN r ELSE Bad

\* object[key]: the value of the last member of that key; Undefined when
\* there is none.
Undefined == [k |-> "undefined", v |-> <<>>]

member(value, key) ==
  LET hits == {i \in 1..(IF value.k = "obj" THEN Len(value.v) ELSE 0) : value.v[i].key = key}
  IN IF hits = {} THEN Undefined
     ELSE value.v[CHOOSE i \in hits : \A j \in hits : i >= j].val

\* The data model read back from a decoded value: a Release[] when the value
\* has its shape, and otherwise a value that equals no Release[].
typeOfName(cs) ==
  IF \E t \in ChangeTypeSet : typeName(t) = cs
    THEN CHOOSE t \in ChangeTypeSet : typeName(t) = cs
    ELSE "?"

asText(value) == IF value.k = "str" THEN value.v ELSE <<"?">>

asList(value) == IF value.k = "arr" THEN value.v ELSE <<>>

asChange(value) ==
  [id |-> asText(member(value, <<"i", "d">>)),
   type |-> typeOfName(asText(member(value, <<"t", "y", "p", "e">>))),
   description |-> asText(member(value, <<"d", "e", "s", "c", "r", "i", "p", "t", "i", "o", "n">>))]

asRelease(value) ==
  [version |-> asText(member(value, <<"v", "e", "r", "s", "i", "o", "n">>)),
   date |-> asText(member(value, <<"d", "a", "t", "e">>)),
   changes |-> LET cs == asList(member(value, <<"c", "h", "a", "n", "g", "e", "s">>))
               IN [i \in 1..Len(cs) |-> asChange(cs[i])]]

asReleases(value) ==
  IF value.k # "arr" THEN <<"?">>
  ELSE [i \in 1..Len(value.v) |-> asRelease(value.v[i])]

\* ------------------------------------------------------------------ parser
\* new Date().toISOString().split('T')[0]: the day the parse runs.
Today == <<"2", "0", "2", "6", "-", "1", "1", "-", "0", "3">>

\* The dash class [-\u2013\u2014] of the version patterns.
Dashes == {"-", "U+2013", "U+2014"}

\* (\d+\.\d+(?:\.\d+)?) at position i: the index after the match, 0 for none.
versionEnd(s, i) ==
  LET a == SkipWhile(s, i, Digits)
      b == SkipWhile(s, a + 1, Digits)
      c == SkipWhile(s, b + 1, Digits)
  IN IF a = i \/ At(s, a) # "." \/ b = a + 1 THEN 0
     ELSE IF At(s, b) = "." /\ c > b + 1 THEN c
     ELSE b

\* The tail \]?\s*[-\u2013\u2014]?\s*(.+)?$ after a version that starts at i, where
\* `closing` is {"]"} for the pattern that has the \]? and {} for the two
\* that do not: the match with its two groups ((.+)? unmatched is the empty
\* string, as `versionMatch[2] || ''` reads it).
versionTail(s, i, closing) ==
  LET e == versionEnd(s, i)
      r == SkipWhile(s, SkipOne(s, SkipWhile(s, SkipOne(s, e, closing), WhiteSpace), Dashes),
                     WhiteSpace)
  IN IF e = 0 THEN [matched |-> FALSE, version |-> <<>>, rest |-> <<>>]
     ELSE [matched |-> TRUE, version |-> SubSeq(s, i, e - 1), rest |-> From(s, r)]

\* /^##?\s*\[?v?(\d+\.\d+(?:\.\d+)?)\]?\s*[-\u2013\u2014]?\s*(.+)?$/i
versionPattern1(s) ==
  IF At(s, 1) # "#" THEN [matched |-> FALSE, version |-> <<>>, rest |-> <<>>]
  ELSE versionTail(s, SkipOne(s, SkipOne(s, SkipWhile(s, SkipOne(s, 2, {"#"}), WhiteSpace),
                                         {"["}), {"v", "V"}),
                   {"]"})

\* /^v?(\d+\.\d+(?:\.\d+)?)\s*[-\u2013\u2014]?\s*(.+)?$/i
versionPattern2(s) == versionTail(s, SkipOne(s, 1, {"v", "V"}), {})

\* /^version\s*:?\s*v?(\d+\.\d+(?:\.\d+)?)\s*[-\u2013\u2014]?\s*(.+)?$/i
versionPattern3(s) ==
  IF Len(s) < 7 \/ toLowerCase(SubSeq(s, 1, 7)) # <<"v", "e", "r", "s", "i", "o", "n">>
    THEN [matched |-> FALSE, version |-> <<>>, rest |-> <<>>]
    ELSE versionTail(s, SkipOne(s, SkipWhile(s, SkipOne(s, SkipWhile(s, 8, WhiteSpace), {":"}),
                                             WhiteSpace),
                                {"v", "V"}),
                     {})

\* The loop over versionPatterns: the first pattern that matches.
versionMatch(s) ==
  LET m1 == versionPattern1(s)
      m2 == versionPattern2(s)
  IN IF m1.matched THEN m1 ELSE IF m2.matched THEN m2 ELSE versionPattern3(s)

\* /(\d{4}[-\/]\d{1,2}[-\/]\d{1,2})/ at position i: the index after the
\* match, 0 for none.
dateEnd(s, i) ==
  LET m == i + 5
      oneOrTwo(k) == IF At(s, k) \in Digits /\ At(s, k + 1) \in Digits THEN k + 2
                     ELSE IF At(s, k) \in Digits THEN k + 1 ELSE 0
      d == oneOrTwo(m)
  IN IF \A k \in i..(i + 3) : At(s, k) \in Digits
        /\ At(s, i + 4) \in {"-", "/"}
        /\ d # 0 /\ At(s, d) \in {"-", "/"}
        /\ oneOrTwo(d + 1) # 0
       THEN oneOrTwo(d + 1)
       ELSE 0

\* Mutant of releaseDate: the rest of the header line is not searched.
releaseDateToday(rest) == Today

\* The date of a release: the leftmost date of the header's remainder with
\* its slashes replaced, or the current date.
releaseDate(rest) ==
  LET hits == {i \in 1..Len(rest) : dateEnd(rest, i) # 0}
      first == CHOOSE i \in hits : \A j \in hits : i <= j
  IN IF hits = {} THEN Today
     ELSE replaceSlashes(SubSeq(rest, first, dateEnd(rest, first) - 1))

\* The words of one sectionPatterns entry, lower case; "bug\s*fix" is the
\* pair <<"bug", "fix">>.
sectionWords ==
  <<[type |-> "added", words |-> {<<"a", "d", "d", "e", "d">>, <<"n", "e", "w">>, <<"f", "e", "a", "t", "u", "r", "e">>}],
    [type |-> "changed", words |-> {<<"c", "h", "a", "n", "g", "e", "d">>, <<"u", "p", "d", "a", "t", "e">>, <<"m", "o", "d", "i", "f", "i", "e", "d">>}],
    [type |-> "fixed", words |-> {<<"f", "i", "x", "e", "d">>, <<"f", "i", "x", "e", "s">>}],
    [type |-> "removed", words |-> {<<"r", "e", "m", "o", "v", "e", "d">>, <<"d", "e", "l", "e", "t", "e", "d">>}],
    [type |-> "security", words |-> {<<"s", "e", "c", "u", "r", "i", "t", "y">>}],
    [type |-> "deprecated", words |-> {<<"d", "e", "p", "r", "e", "c", "a", "t", "e", "d">>}]>>

\* /bug\s*fix/i at the start of lower-case s.
bugFix(s) == startsWith(s, <<"b", "u", "g">>) /\ startsWith(From(s, SkipWhile(s, 4, WhiteSpace)), <<"f", "i", "x">>)

\* Mutant of sectionMarker: one '#' is enough, /^##?#?/.
sectionMarkerOneHash(s) == At(s, 1) = "#"

\* Whether s starts with the heading marker of the section patterns, /^###?/.
sectionMarker(s) == At(s, 1) = "#" /\ At(s, 2) = "#"

\* What follows /^###?\s*/ in s, in lower case (the patterns have the i flag).
sectionBody(s) == toLowerCase(From(s, SkipWhile(s, SkipOne(s, 3, {"#"}), WhiteSpace)))

\* Whether the k-th section pattern matches a line with the marker and this
\* body.
sectionPattern(k, body) ==
  \/ \E w \in sectionWords[k].words : startsWith(body, w)
  \/ sectionWords[k].type = "fixed" /\ bugFix(body)

\* The loop over sectionPatterns: the type of the first pattern that
\* matches, "" for none.
sectionMatch(s) ==
  LET body == sectionBody(s)
      hits == {k \in 1..Len(sectionWords) : sectionPattern(k, body)}
  IN IF ~sectionMarker(s) \/ hits = {} THEN ""
     ELSE sectionWords[CHOOSE k \in hits : \A j \in hits : k <= j].type

\* The bullet class of listItemPattern.
Bullets == {"-", "*", "U+2022"}

\* Mutant of listItemPattern: the bullet is optional, /^[-*\u2022]?\s*(.+)$/.
listItemOptionalBullet(s) ==
  LET p == SkipWhile(s, SkipOne(s, 1, Bullets), WhiteSpace)
  IN IF p <= Len(s)
       THEN [matched |-> TRUE, text |-> From(s, p)]
       ELSE [matched |-> FALSE, text |-> <<>>]

\* Mutant of listItemPattern: the group may be empty, /^[-*\u2022]\s*(.*)$/.
listItemAnyText(s) ==
  LET p == SkipWhile(s, 2, WhiteSpace)
  IN IF At(s, 1) \in Bullets
       THEN [matched |-> TRUE, text |-> IF p <= Len(s) THEN From(s, p) ELSE <<>>]
       ELSE [matched |-> FALSE, text |-> <<>>]

\* /^[-*\u2022]\s*(.+)$/: the match and its group.
listItemPattern(s) ==
  LET p == SkipWhile(s, 2, WhiteSpace)
  IN IF At(s, 1) \in Bullets /\ p <= Len(s)
       THEN [matched |-> TRUE, text |-> From(s, p)]
       ELSE [matched |-> FALSE, text |-> <<>>]

\* Mutant of detectType: the keywords are tried only in the default mode, as
\* the comment over the rules has it.
detectTypeDefaultOnly(currentType, description) ==
  LET lowerDesc == toLowerCase(description)
  IN IF currentType # "added" THEN currentType
     ELSE IF startsWith(lowerDesc, <<"f", "i", "x">>) \/ startsWith(lowerDesc, <<"b", "u", "g">>) THEN "fixed"
     ELSE IF startsWith(lowerDesc, <<"r", "e", "m", "o", "v", "e">>) \/ startsWith(lowerDesc, <<"d", "e", "l", "e", "t", "e">>)
       THEN "removed"
     ELSE IF startsWith(lowerDesc, <<"s", "e", "c", "u", "r", "i", "t", "y">>) \/ includes(lowerDesc, <<"v", "u", "l", "n", "e", "r", "a", "b", "i", "l", "i", "t", "y">>)
             \/ includes(lowerDesc, <<"c", "v", "e">>)
       THEN "security"
     ELSE IF startsWith(lowerDesc, <<"d", "e", "p", "r", "e", "c", "a", "t">>) THEN "deprecated"
     ELSE IF startsWith(lowerDesc, <<"u", "p", "d", "a", "t", "e">>) \/ startsWith(lowerDesc, <<"c", "h", "a", "n", "g", "e">>)
             \/ startsWith(lowerDesc, <<"i", "m", "p", "r", "o", "v", "e">>)
       THEN "changed"
     ELSE currentType

\* The keyword rules of a list item, first match first.
detectType(currentType, description) ==
  LET lowerDesc == toLowerCase(description)
  IN IF startsWith(lowerDesc, <<"f", "i", "x">>) \/ startsWith(lowerDesc, <<"b", "u", "g">>) THEN "fixed"
     ELSE IF startsWith(lowerDesc, <<"a", "d", "d">>) \/ startsWith(lowerDesc, <<"n", "e", "w", " ">>) THEN "added"
     ELSE IF startsWith(lowerDesc, <<"r", "e", "m", "o", "v", "e">>) \/ startsWith(lowerDesc, <<"d", "e", "l", "e", "t", "e">>)
       THEN "removed"
     ELSE IF startsWith(lowerDesc, <<"s", "e", "c", "u", "r", "i", "t", "y">>) \/ includes(lowerDesc, <<"v", "u", "l", "n", "e", "r", "a", "b", "i", "l", "i", "t", "y">>)
             \/ includes(lowerDesc, <<"c", "v", "e">>)
       THEN "security"
     ELSE IF startsWith(lowerDesc, <<"d", "e", "p", "r", "e", "c", "a", "t">>) THEN "deprecated"
     ELSE IF startsWith(lowerDesc, <<"u", "p", "d", "a", "t", "e">>) \/ startsWith(lowerDesc, <<"c", "h", "a", "n", "g", "e">>)
             \/ startsWith(lowerDesc, <<"i", "m", "p", "r", "o", "v", "e">>)
       THEN "changed"
     ELSE currentType

\* No release is open.
NoRelease == [open |-> FALSE, version |-> <<>>, date |-> <<>>, changes |-> <<>>]

\* The parser's cursor before the first line.  `ids` counts the calls of
\* generateId made so far.
parseStart == [releases |-> <<>>, currentRelease |-> NoRelease, currentType |-> "added",
               ids |-> 0]

\* Mutant of pushRelease: the release is pushed whether or not it has changes.
pushReleaseUnguarded(st) ==
  IF st.currentRelease.open
    THEN Append(st.releases, [version |-> st.currentRelease.version,
                              date |-> st.currentRelease.date,
                              changes |-> st.currentRelease.changes])
    ELSE st.releases

\* `releases.push(currentRelease)` under its guard.
pushRelease(st) ==
  IF st.currentRelease.open /\ Len(st.currentRelease.changes) > 0
    THEN Append(st.releases, [version |-> st.currentRelease.version,
                              date |-> st.currentRelease.date,
                              changes |-> st.currentRelease.changes])
    ELSE st.releases

\* Mutant of parseLine: a version header leaves the active category as it
\* is.
parseLineNoReset(st, line, rand) ==
  LET trimmed == trim(line)
      vm == versionMatch(trimmed)
      sm == sectionMatch(trimmed)
      im == listItemPattern(trimmed)
      description == trim(im.text)
  IN IF trimmed = <<>> THEN st
     ELSE IF vm.matched
       THEN [st EXCEPT !.releases = pushRelease(st),
                       !.currentRelease = [open |-> TRUE, version |-> vm.version,
                                           date |-> releaseDate(vm.rest), changes |-> <<>>]]
     ELSE IF sm # "" THEN [st EXCEPT !.currentType = sm]
     ELSE IF im.matched /\ st.currentRelease.open
       THEN [st EXCEPT !.currentRelease.changes =
                         Append(@, [id |-> rand[st.ids + 1],
                                    type |-> detectType(st.currentType, description),
                                    description |-> description]),
                       !.ids = @ + 1]
     ELSE st

\* One pass of the loop over the lines.  rand[k] is the id the k-th call of
\* generateId returns.
parseLine(st, line, rand) ==
  LET trimmed == trim(line)
      vm == versionMatch(trimmed)
      sm == sectionMatch(trimmed)
      im == listItemPattern(trimmed)
      description == trim(im.text)
  IN IF trimmed = <<>> THEN st
     ELSE IF vm.matched
       THEN [st EXCEPT !.releases = pushRelease(st),
                       !.currentRelease = [open |-> TRUE, version |-> vm.version,
                                           date |-> releaseDate(vm.rest), changes |-> <<>>],
                       !.currentType = "added"]
     ELSE IF sm # "" THEN [st EXCEPT !.currentType = sm]
     ELSE IF im.matched /\ st.currentRelease.open
       THEN [st EXCEPT !.currentRelease.changes =
                         Append(@, [id |-> rand[st.ids + 1],
                                    type |-> detectType(st.currentType, description),
                                    description |-> description]),
                       !.ids = @ + 1]
     ELSE st

RECURSIVE parseLines(_, _, _, _)
parseLines(st, lines, i, rand) ==
  IF i > Len(lines) THEN st
  ELSE parseLines(parseLine(st, lines[i], rand), lines, i + 1, rand)

\* Mutant of parseChangelogText: the release open at the end of the text is
\* forgotten.
parseForgetLast(t, rand) == parseLines(parseStart, split(t), 1, rand).releases

parseChangelogText(t, rand) == pushRelease(parseLines(parseStart, split(t), 1, rand))

\* ----------------------------------------------------------- the differ
\* A version snapshot: { id, name, releases, createdAt }.
VersionSnapshot(id, name, rs, createdAt) ==
  [id |-> id, name |-> name, releases |-> rs, createdAt |-> createdAt]

\* Mutant of changeKey: the date of the release is part of the key.
changeKeyDated(r, c) ==
  r.version \o <<" ">> \o r.date \o <<":", ":">> \o typeName(c.type) \o <<":", ":">> \o c.description

\* `${r.version}::${c.type}::${c.description}`
changeKey(r, c) == r.version \o <<":", ":">> \o typeName(c.type) \o <<":", ":">> \o c.description

\* The keys of the changes of all releases, in the order forEach visits
\* them.
RECURSIVE changeKeys(_, _)
changeKeys(rs, i) ==
  IF i > Len(rs) THEN <<>>
  ELSE [j \in 1..Len(rs[i].changes) |-> changeKey(rs[i], rs[i].changes[j])]
         \o changeKeys(rs, i + 1)

\* Mutant of SetOf: an element is kept each time it is inserted.
SetOfAll(elements) == elements

\* A Set filled by add(), a Map's keys filled by set(), element after
\* element: the distinct elements in the order of their first insertion.
SetOf(elements) ==
  LET firsts == {i \in DOMAIN elements : \A j \in 1..(i - 1) : elements[j] # elements[i]}
  IN [k \in 1..Cardinality(firsts) |-> elements[Nth(firsts, k)]]

\* Mutant of has: only the first element of the collection is looked at.
hasFirst(collection, x) == collection # <<>> /\ collection[1] = x

\* Set.prototype.has, Map.prototype.has
has(collection, x) == \E i \in DOMAIN collection : collection[i] = x

\* The keys of the Map version -> date of a snapshot.
versionKeys(rs) == SetOf([i \in DOMAIN rs |-> rs[i].version])

\* The Map version -> date: the date of the last release of the version.
versionDates(rs) ==
  LET keys == versionKeys(rs)
  IN [k \in DOMAIN keys |->
        [version |-> keys[k],
         date |-> rs[CHOOSE i \in DOMAIN rs :
                       /\ rs[i].version = keys[k]
                       /\ \A j \in DOMAIN rs : rs[j].version = keys[k] => j <= i].date]]

\* s.indexOf(sep, from), positions counted from 1 and 0 for -1.
indexOf(s, sep, from) ==
  LET hits == {i \in from..(Len(s) - Len(sep) + 1) : SubSeq(s, i, i + Len(sep) - 1) = sep}
  IN IF hits = {} THEN 0 ELSE CHOOSE i \in hits : \A j \in hits : i <= j

\* s.split(sep) for a separator that is not empty: the parts between the
\* occurrences of the separator, found from left to right.
RECURSIVE splitFrom(_, _, _)
splitFrom(s, sep, from) ==
  LET i == indexOf(s, sep, from)
  IN IF i = 0 THEN <<SubSeq(s, from, Len(s))>>
     ELSE <<SubSeq(s, from, i - 1)>> \o splitFrom(s, sep, i + Len(sep))

splitSep(s, sep) == splitFrom(s, sep, 1)

\* An element of an array by destructuring: a string, or undefined, which
\* is falsy as the empty string is.
Absent == <<"undefined">>

element(parts, k) == IF k <= Len(parts) THEN <<parts[k]>> ELSE Absent

truthy(x) == x # Absent /\ x[1] # <<>>

\* The items of the keys of `mine` that `theirs` has not: const [release, ,
\* desc] = change.split('::'); if (desc) push({ release, change: desc }).
changedItems(mine, theirs) ==
  LET only == SelectSeq(mine, LAMBDA key : ~has(theirs, key))
      descOf(key) == element(splitSep(key, <<":", ":">>), 3)
      kept == SelectSeq(only, LAMBDA key : truthy(descOf(key)))
  IN [k \in DOMAIN kept |->
        [release |-> splitSep(kept[k], <<":", ":">>)[1], change |-> descOf(kept[k])[1]]]

\* oldVersions.find(v => !newerVersions.has(v))
findOldOnly(oldVersions, newVersions) ==
  LET hits == {i \in DOMAIN oldVersions : ~has(newVersions, oldVersions[i])}
  IN IF hits = {} THEN Absent
     ELSE <<oldVersions[CHOOSE i \in hits : \A j \in hits : i <= j]>>

\* The renames diffVersions infers.
modifiedItems(olderVersions, newerVersions) ==
  LET oldVersions == [k \in DOMAIN olderVersions |-> olderVersions[k].version]
      newVersions == [k \in DOMAIN newerVersions |-> newerVersions[k].version]
      oldV == findOldOnly(oldVersions, newVersions)
      fresh == SelectSeq(newVersions, LAMBDA version :
                 /\ ~has(oldVersions, version)
                 /\ Len(oldVersions) = Len(newVersions) /\ Len(oldVersions) > 0
                 /\ truthy(oldV))
  IN [k \in DOMAIN fresh |->
        [release |-> <<"V", "e", "r", "s", "i", "o", "n">>, oldVersion |-> oldV[1], newVersion |-> fresh[k]]]

diffVersions(older, newer) ==
  LET olderChanges == SetOf(changeKeys(older.releases, 1))
      newerChanges == SetOf(changeKeys(newer.releases, 1))
      olderVersions == versionDates(older.releases)
      newerVersions == versionDates(newer.releases)
  IN [added |-> changedItems(newerChanges, olderChanges),
      removed |-> changedItems(olderChanges, newerChanges),
      modified |-> modifiedItems(olderVersions, newerVersions)]

\* ----------------------------------------------------------- the editor
\* JSON.stringify(value): no white space between the tokens.
RECURSIVE jsonText(_)
RECURSIVE jsonElements(_, _)
RECURSIVE jsonMembers(_, _)
jsonElements(vs, i) ==
  IF i > Len(vs) THEN <<>>
  ELSE (IF i > 1 THEN <<",">> ELSE <<>>) \o jsonText(vs[i]) \o jsonElements(vs, i + 1)

jsonMembers(ms, i) ==
  IF i > Len(ms) THEN <<>>
  ELSE (IF i > 1 THEN <<",">> ELSE <<>>) \o quote(ms[i].key) \o <<":">> \o jsonText(ms[i].val)
         \o jsonMembers(ms, i + 1)

jsonText(value) ==
  IF value.k = "str" THEN quote(value.v)
  ELSE IF value.k = "arr" THEN <<"[">> \o jsonElements(value.v, 1) \o <<"]">>
  ELSE <<"{">> \o jsonMembers(value.v, 1) \o <<"}">>

\* JSON.parse(JSON.stringify(releases)), the deep clone of saveVersion.
deepClone(rs) == asReleases(JSONparse(jsonText(releasesValue(rs))).val)

\* A snapshot as JSON.stringify sees it, its members in property order.
snapshotValue(snapshot) ==
  [k |-> "obj", v |-> <<[key |-> <<"i", "d">>, val |-> Str(snapshot.id)],
                        [key |-> <<"n", "a", "m", "e">>, val |-> Str(snapshot.name)],
                        [key |-> <<"r", "e", "l", "e", "a", "s", "e", "s">>, val |-> releasesValue(snapshot.releases)],
                        [key |-> <<"c", "r", "e", "a", "t", "e", "d", "A", "t">>, val |-> Str(snapshot.createdAt)]>>]

asSnapshot(value) ==
  VersionSnapshot(asText(member(value, <<"i", "d">>)), asText(member(value, <<"n", "a", "m", "e">>)),
                  asReleases(member(value, <<"r", "e", "l", "e", "a", "s", "e", "s">>)),
                  asText(member(value, <<"c", "r", "e", "a", "t", "e", "d", "A", "t">>)))

\* localStorage.setItem('shiplog-versions', JSON.stringify(history))
versionsText(history) ==
  jsonText([k |-> "arr", v |-> [i \in DOMAIN history |-> snapshotValue(history[i])]])

\* getVersionHistory: the stored text parsed, [] when it does not parse.
getVersionHistory(stored) ==
  LET r == JSONparse(stored)
  IN IF r.ok /\ r.val.k = "arr"
       THEN [i \in DOMAIN r.val.v |-> asSnapshot(r.val.v[i])]
       ELSE <<>>

\* [...history, newVersion].slice(-10)
HistoryLimit == 10

\* Mutant of saveVersion: slice(0, 10), the first ten kept.
saveVersionKeepFirst(stored, id, name, rs, createdAt) ==
  LET history == getVersionHistory(stored)
      all == Append(history, VersionSnapshot(id, name, deepClone(rs), createdAt))
  IN SubSeq(all, 1, IF Len(all) > HistoryLimit THEN HistoryLimit ELSE Len(all))

\* Mutant of saveVersion: the new snapshot takes the place of the last one.
saveVersionOverLast(stored, id, name, rs, createdAt) ==
  LET history == getVersionHistory(stored)
  IN SubSeq(history, 1, Len(history) - 1)
       \o <<VersionSnapshot(id, name, deepClone(rs), createdAt)>>

\* saveVersion(name, releases), with the text the storage holds, the id
\* Math.random gave and the time the clock showed: the history it stores
\* and returns.
saveVersion(stored, id, name, rs, createdAt) ==
  LET history == getVersionHistory(stored)
      all == Append(history, VersionSnapshot(id, name, deepClone(rs), createdAt))
  IN SubSeq(all, IF Len(all) > HistoryLimit THEN Len(all) - HistoryLimit + 1 ELSE 1, Len(all))

\* deleteVersion(id)
deleteVersion(stored, id) ==
  SelectSeq(getVersionHistory(stored), LAMBDA v : v.id # id)

\* Number(part) of a part of a version: the digits read as a number, 0 for
\* a blank part and NaN for a part of another form.
RECURSIVE digitsValue(_, _)
digitsValue(cs, n) ==
  IF n = 0 THEN 0
  ELSE 10 * digitsValue(cs, n - 1)
         + (CHOOSE d \in 0..9 : <<"0", "1", "2", "3", "4", "5", "6", "7", "8", "9">>[d + 1] = cs[n])

NaN == [nan |-> TRUE, n |-> 0]

Number(cs) ==
  LET t == trim(cs)
  IN IF \A i \in DOMAIN t : t[i] \in Digits
       THEN [nan |-> FALSE, n |-> digitsValue(t, Len(t))]
       ELSE NaN

\* String(n) of a number that is no NaN.
RECURSIVE numberText(_)
numberText(n) ==
  (IF n >= 10 THEN numberText(n \div 10) ELSE <<>>)
    \o <<(<<"0", "1", "2", "3", "4", "5", "6", "7", "8", "9">>)[(n % 10) + 1]>>

\* `${x}` of an element of split('.').map(Number), undefined when the
\* version has no such part, and of patch + 1.
partText(parts, k) ==
  IF k > Len(parts) THEN <<"u", "n", "d", "e", "f", "i", "n", "e", "d">>
  ELSE IF Number(parts[k]).nan THEN <<"N", "a", "N">>
  ELSE numberText(Number(parts[k]).n)

nextPatchText(parts) ==
  IF Len(parts) < 3 \/ Number(parts[3]).nan THEN <<"N", "a", "N">>
  ELSE numberText(Number(parts[3]).n + 1)

\* The release addRelease puts in front.
newRelease(rs) ==
  LET lastVersion == IF rs # <<>> /\ rs[1].version # <<>> THEN rs[1].version ELSE <<"0", ".", "0", ".", "0">>
      parts == splitSep(lastVersion, <<".">>)
  IN [version |-> partText(parts, 1) \o <<".">> \o partText(parts, 2) \o <<".">>
                    \o nextPatchText(parts),
      date |-> Today,
      changes |-> <<>>]

\* The ReleaseSet of a fresh editor and of clearAll.
FirstReleases == <<[version |-> <<"1", ".", "0", ".", "0">>, date |-> Today, changes |-> <<>>]>>

\* stack.slice(-19)
UndoKept == 19

\* Mutant of updateReleases: the stack is not cut, [...stack, prev].
updateReleasesUncut(prev, next, undos, redos) ==
  IF jsonText(releasesValue(prev)) # jsonText(releasesValue(next))
    THEN [undo |-> Append(undos, prev), redo |-> <<>>]
    ELSE [undo |-> undos, redo |-> redos]

\* updateReleases: the undo and redo stacks after the live ReleaseSet went
\* from prev to next.
updateReleases(prev, next, undos, redos) ==
  IF jsonText(releasesValue(prev)) # jsonText(releasesValue(next))
    THEN [undo |-> Append(SubSeq(undos, IF Len(undos) > UndoKept
                                          THEN Len(undos) - UndoKept + 1 ELSE 1,
                                 Len(undos)),
                          prev),
          redo |-> <<>>]
    ELSE [undo |-> undos, redo |-> redos]

\* The editing functions handed to updateReleases.
updateRelease(rs, index, updates) ==
  [i \in DOMAIN rs |->
     IF i # index THEN rs[i]
     ELSE [version |-> IF updates.field = "version" THEN updates.value ELSE rs[i].version,
           date |-> IF updates.field = "date" THEN updates.value ELSE rs[i].date,
           changes |-> rs[i].changes]]

deleteRelease(rs, index) ==
  [i \in 1..(Len(rs) - 1) |-> IF i < index THEN rs[i] ELSE rs[i + 1]]

withChanges(r, changes) == [version |-> r.version, date |-> r.date, changes |-> changes]

addChange(rs, releaseIndex, type, id) ==
  [i \in DOMAIN rs |->
     IF i # releaseIndex THEN rs[i]
     ELSE withChanges(rs[i], Append(rs[i].changes,
                                    [id |-> id, type |-> type, description |-> <<>>]))]

updateChange(rs, releaseIndex, changeId, description) ==
  [i \in DOMAIN rs |->
     IF i # releaseIndex THEN rs[i]
     ELSE withChanges(rs[i],
            [j \in DOMAIN rs[i].changes |->
               IF rs[i].changes[j].id = changeId
                 THEN [id |-> changeId, type |-> rs[i].changes[j].type,
                       description |-> description]
                 ELSE rs[i].changes[j]])]

deleteChange(rs, releaseIndex, changeId) ==
  [i \in DOMAIN rs |->
     IF i # releaseIndex THEN rs[i]
     ELSE withChanges(rs[i], SelectSeq(rs[i].changes, LAMBDA c : c.id # changeId))]

\* The number of changes of the first n releases.
RECURSIVE changeCount(_, _)
changeCount(rs, n) == IF n = 0 THEN 0 ELSE changeCount(rs, n - 1) + Len(rs[n].changes)

\* The changes of a Release[] get the ids of `ids`, in order: the map of
\* applyTemplate and of handleRestoreVersion.
withIds(rs, ids) ==
  [i \in DOMAIN rs |->
     withChanges(rs[i],
       [j \in DOMAIN rs[i].changes |->
          [id |-> ids[changeCount(rs, i - 1) + j],
           type |-> rs[i].changes[j].type,
           description |-> rs[i].changes[j].description]])]

\* Mutant of filtered: the releases left without a change are kept.
filteredChangesOnly(rs) ==
  [i \in DOMAIN rs |->
     withChanges(rs[i], SelectSeq(rs[i].changes, LAMBDA c : trim(c.description) # <<>>))]

\* The Release[] getExport hands to the renderer.
filtered(rs) ==
  SelectSeq([i \in DOMAIN rs |->
               withChanges(rs[i],
                           SelectSeq(rs[i].changes, LAMBDA c : trim(c.description) # <<>>))],
            LAMBDA r : Len(r.changes) > 0)

getExport(rs, format) ==
  IF format = "markdown" THEN generateMarkdown(filtered(rs))
  ELSE IF format = "json" THEN generateJSON(filtered(rs))
  ELSE generateHTML(filtered(rs))

\* Math.random().toString(36).substring(2, 9): the k-th of a run of ids
\* that all differ.
Id(k) == <<"k", "3", "f", "9", "x">> \o numberText(k \div 10) \o numberText(k % 10)

\* The templates, their ids the first ones generateId returns.
templates == <<
  [name |-> <<"P", "r", "o", "d", "u", "c", "t", " ", "L", "a", "u", "n", "c", "h">>,
   releases |-> <<[version |-> <<"1", ".", "0", ".", "0">>, date |-> Today,
      changes |-> <<
         [id |-> Id(1), type |-> "added", description |-> <<"I", "n", "i", "t", "i", "a", "l", " ", "r", "e", "l", "e", "a", "s", "e">>],
         [id |-> Id(2), type |-> "added", description |-> <<"C", "o", "r", "e", " ", "f", "e", "a", "t", "u", "r", "e", " ", "i", "m", "p", "l", "e", "m", "e", "n", "t", "a", "t", "i", "o", "n">>],
         [id |-> Id(3), type |-> "added", description |-> <<"U", "s", "e", "r", " ", "a", "u", "t", "h", "e", "n", "t", "i", "c", "a", "t", "i", "o", "n">>],
         [id |-> Id(4), type |-> "added", description |-> <<"D", "o", "c", "u", "m", "e", "n", "t", "a", "t", "i", "o", "n">>]>>]>>],
  [name |-> <<"B", "u", "g", " ", "F", "i", "x">>,
   releases |-> <<[version |-> <<"1", ".", "0", ".", "1">>, date |-> Today,
      changes |-> <<
         [id |-> Id(5), type |-> "fixed", description |-> <<"F", "i", "x", "e", "d", " ", "c", "r", "i", "t", "i", "c", "a", "l", " ", "b", "u", "g", " ", "i", "n", ".", ".", ".">>],
         [id |-> Id(6), type |-> "fixed", description |-> <<"R", "e", "s", "o", "l", "v", "e", "d", " ", "e", "d", "g", "e", " ", "c", "a", "s", "e", " ", "w", "h", "e", "r", "e", ".", ".", ".">>],
         [id |-> Id(7), type |-> "changed", description |-> <<"I", "m", "p", "r", "o", "v", "e", "d", " ", "e", "r", "r", "o", "r", " ", "h", "a", "n", "d", "l", "i", "n", "g">>]>>]>>],
  [name |-> <<"S", "e", "c", "u", "r", "i", "t", "y", " ", "U", "p", "d", "a", "t", "e">>,
   releases |-> <<[version |-> <<"1", ".", "0", ".", "2">>, date |-> Today,
      changes |-> <<
         [id |-> Id(8), type |-> "security", description |-> <<"P", "a", "t", "c", "h", "e", "d", " ", "X", "S", "S", " ", "v", "u", "l", "n", "e", "r", "a", "b", "i", "l", "i", "t", "y", " ", "i", "n", ".", ".", ".">>],
         [id |-> Id(9), type |-> "security", description |-> <<"U", "p", "d", "a", "t", "e", "d", " ", "d", "e", "p", "e", "n", "d", "e", "n", "c", "i", "e", "s", " ", "t", "o", " ", "f", "i", "x", " ", "C", "V", "E", "-", ".", ".", ".">>],
         [id |-> Id(10), type |-> "changed", description |-> <<"E", "n", "h", "a", "n", "c", "e", "d", " ", "i", "n", "p", "u", "t", " ", "v", "a", "l", "i", "d", "a", "t", "i", "o", "n">>]>>]>>],
  [name |-> <<"M", "a", "j", "o", "r", " ", "U", "p", "d", "a", "t", "e">>,
   releases |-> <<[version |-> <<"2", ".", "0", ".", "0">>, date |-> Today,
      changes |-> <<
         [id |-> Id(11), type |-> "added", description |-> <<"N", "e", "w", " ", "f", "e", "a", "t", "u", "r", "e", ":", " ", ".", ".", ".">>],
         [id |-> Id(12), type |-> "added", description |-> <<"A", "d", "d", "e", "d", " ", "s", "u", "p", "p", "o", "r", "t", " ", "f", "o", "r", ".", ".", ".">>],
         [id |-> Id(13), type |-> "changed", description |-> <<"R", "e", "d", "e", "s", "i", "g", "n", "e", "d", " ", "U", "I", " ", "f", "o", "r", ".", ".", ".">>],
         [id |-> Id(14), type |-> "changed", description |-> <<"I", "m", "p", "r", "o", "v", "e", "d", " ", "p", "e", "r", "f", "o", "r", "m", "a", "n", "c", "e", " ", "b", "y", ".", ".", ".">>],
         [id |-> Id(15), type |-> "deprecated", description |-> <<"O", "l", "d", " ", "A", "P", "I", " ", "e", "n", "d", "p", "o", "i", "n", "t", "s">>]>>]>>],
  [name |-> <<"B", "r", "e", "a", "k", "i", "n", "g", " ", "C", "h", "a", "n", "g", "e", "s">>,
   releases |-> <<[version |-> <<"3", ".", "0", ".", "0">>, date |-> Today,
      changes |-> <<
         [id |-> Id(16), type |-> "changed", description |-> <<"B", "R", "E", "A", "K", "I", "N", "G", ":", " ", "C", "h", "a", "n", "g", "e", "d", " ", "A", "P", "I", " ", "r", "e", "s", "p", "o", "n", "s", "e", " ", "f", "o", "r", "m", "a", "t">>],
         [id |-> Id(17), type |-> "removed", description |-> <<"B", "R", "E", "A", "K", "I", "N", "G", ":", " ", "R", "e", "m", "o", "v", "e", "d", " ", "d", "e", "p", "r", "e", "c", "a", "t", "e", "d", " ", "v", "1", " ", "e", "n", "d", "p", "o", "i", "n", "t", "s">>],
         [id |-> Id(18), type |-> "added", description |-> <<"N", "e", "w", " ", "v", "3", " ", "A", "P", "I", " ", "w", "i", "t", "h", " ", "i", "m", "p", "r", "o", "v", "e", "d", " ", "p", "e", "r", "f", "o", "r", "m", "a", "n", "c", "e">>],
         [id |-> Id(19), type |-> "changed", description |-> <<"U", "p", "d", "a", "t", "e", "d", " ", "m", "i", "n", "i", "m", "u", "m", " ", "N", "o", "d", "e", ".", "j", "s", " ", "v", "e", "r", "s", "i", "o", "n", " ", "t", "o", " ", "1", "8">>]>>]>>]>>

\* The ids generateId returned while the templates were built.
TemplateIdCount ==
  changeCount(<<templates[1].releases[1], templates[2].releases[1], templates[3].releases[1],
                templates[4].releases[1], templates[5].releases[1]>>, 5)

TemplateIds == [k \in 1..TemplateIdCount |-> Id(k)]

\* new Date().toISOString() at `ms` milliseconds after 08:00 of the day.
twoDigits(n) == numberText((n \div 10) % 10) \o numberText(n % 10)

toISOString(ms) ==
  Today \o <<"T", "0", "8", ":">> \o twoDigits(ms \div 60000) \o <<":">> \o twoDigits((ms \div 1000) % 60)
    \o <<".">> \o numberText((ms \div 100) % 10) \o twoDigits(ms % 100) \o <<"Z">>

\* new Date().toLocaleDateString() of the same day.
LocaleToday == <<"1", "1", "/", "3", "/", "2", "0", "2", "6">>

\* new Date(iso) for the text toISOString writes: the year, the month, the
\* day, the hour, the minute, the second and the millisecond, which order
\* the instants as the time values do; NaN for a text of another form.
timeOf(iso) ==
  LET field(a, b) == SubSeq(iso, a, b)
      digits == {1, 2, 3, 4, 6, 7, 9, 10, 12, 13, 15, 16, 18, 19, 21, 22, 23}
      n(a, b) == digitsValue(field(a, b), b - a + 1)
  IN IF Len(iso) = 24 /\ (\A i \in digits : iso[i] \in Digits)
        /\ iso[5] = "-" /\ iso[8] = "-" /\ iso[11] = "T" /\ iso[14] = ":" /\ iso[17] = ":"
        /\ iso[20] = "." /\ iso[24] = "Z"
       THEN [nan |-> FALSE,
             n |-> <<n(1, 4), n(6, 7), n(9, 10), n(12, 13), n(15, 16), n(18, 19), n(21, 23)>>]
       ELSE [nan |-> TRUE, n |-> <<>>]

\* new Date(a) < new Date(b)
earlier(a, b) ==
  LET x == timeOf(a)
      y == timeOf(b)
  IN /\ ~x.nan /\ ~y.nan
     /\ \E i \in DOMAIN x.n : x.n[i] < y.n[i] /\ \A j \in 1..(i - 1) : x.n[j] = y.n[j]

\* Mutant of compareDiff: the snapshot selected first is taken as older.
compareDiffAsSelected(first, second) == diffVersions(first, second)

\* The diff handleSelectForCompare computes when `first` is selected and
\* `second` is clicked.  (older === prev[0] compares references: it is true
\* exactly when the first branch was taken, the two being distinct objects.)
compareDiff(first, second) ==
  LET firstIsOlder == earlier(first.createdAt, second.createdAt)
      olderOne == IF firstIsOlder THEN first ELSE second
      newerOne == IF firstIsOlder THEN second ELSE first
  IN diffVersions(olderOne, newerOne)

\* handleSelectForCompare: the slots and the diff after a click on
\* `version`.  A slot and the diff are <<>> for null.
selectForCompare(prev, shown, version) ==
  IF prev[1] = <<>> THEN [slots |-> <<<<version>>, <<>>>>, diff |-> shown]
  ELSE IF prev[1][1].id = version.id THEN [slots |-> <<<<>>, <<>>>>, diff |-> shown]
  ELSE IF prev[2] = <<>>
    THEN [slots |-> <<prev[1], <<version>>>>, diff |-> <<compareDiff(prev[1][1], version)>>]
  ELSE [slots |-> <<<<version>>, <<>>>>, diff |-> <<>>]

\* versionName.trim() || `v${releases[0]?.version || '1.0.0'} - ${date}`
snapshotName(versionName, rs) ==
  IF trim(versionName) # <<>> THEN trim(versionName)
  ELSE <<"v">> \o (IF rs # <<>> /\ rs[1].version # <<>> THEN rs[1].version ELSE <<"1", ".", "0", ".", "0">>)
         \o <<" ", "-", " ">> \o LocaleToday

\* ----------------------------------------------------------------- state
VARIABLES
  lines,       \* the lines the caller joins into the text
  text,        \* the text handed to parseChangelogText
  parsed,      \* the Release[] it returned
  probe,       \* the line a text was built around, when it was
  releases,    \* the Release[] handed to a renderer: the live ReleaseSet
  stage,       \* what was done with it last
  output,      \* the text the renderer returned
  decoded,     \* the 'releases' field of the decoded JSON text
  older,       \* the first argument of diffVersions
  newer,       \* its second argument
  diff,        \* the VersionDiff it returned
  undoStack,   \* the states undo goes back to
  redoStack,   \* the states redo goes forward to
  versionHistory,  \* the stored snapshots, 'shiplog-versions'
  compareVersions, \* the two slots of compare mode
  versionDiff, \* the diff compare mode shows, when it shows one
  exportFormat,    \* 'markdown', 'json' or 'html'
  compareMode, \* compare mode is on
  issued,      \* the ids generateId returned, in the order of the calls
  clock,       \* the milliseconds Date reads
  left,        \* the handler calls the run has left
  hasUnsavedChanges,  \* the 'Saving...' flag of the auto-save indicator
  showRestorePrompt,  \* the 'Previous work found!' prompt is shown
  autosave,    \* the stored text 'shiplog-autosave', when there is one
  timer        \* the ReleaseSet the pending auto-save timer holds, when one is pending

vars == <<lines, text, parsed, probe, releases, stage, output, decoded, older, newer, diff,
          undoStack, redoStack, versionHistory, compareVersions, versionDiff, exportFormat,
          compareMode, issued, clock, left, hasUnsavedChanges, showRestorePrompt, autosave,
          timer>>

diffVars == <<older, newer, diff>>

saveVars == <<hasUnsavedChanges, showRestorePrompt, autosave, timer>>

editorVars == <<undoStack, redoStack, versionHistory, compareVersions, versionDiff,
                exportFormat, compareMode, issued, clock, left, saveVars>>

parserVars == <<lines, text, parsed, probe>>

renderVars == <<releases, stage, output, decoded>>

NoProbe == [kind |-> "none", hashes |-> 0, type |-> "", prior |-> "", word |-> <<>>]

\* Nothing was handed to a renderer.
NoRender == releases = <<>> /\ stage = "none" /\ output = <<>> /\ decoded = <<>>

\* Nothing was handed to the parser.
NoParse == lines = <<>> /\ text = <<>> /\ parsed = <<>> /\ probe = NoProbe

\* const diff: VersionDiff = { added: [], removed: [], modified: [] }
EmptyDiff == [added |-> <<>>, removed |-> <<>>, modified |-> <<>>]

NoSnapshot == VersionSnapshot(<<>>, <<>>, <<>>, <<>>)

\* Nothing was handed to diffVersions.
NoDiff == older = NoSnapshot /\ newer = NoSnapshot /\ diff = EmptyDiff

\* Nothing is stored under 'shiplog-autosave' and no save is pending: a
\* stored text and a pending timer are <<>> when there is none.
NoSave ==
  /\ hasUnsavedChanges = FALSE /\ showRestorePrompt = FALSE
  /\ autosave = <<>> /\ timer = <<>>

\* The editor is not part of the run: its state is the one of the first
\* render, with no id handed out.
NoEditor ==
  /\ undoStack = <<>> /\ redoStack = <<>> /\ versionHistory = <<>>
  /\ compareVersions = <<<<>>, <<>>>> /\ versionDiff = <<>>
  /\ exportFormat = "markdown" /\ compareMode = FALSE /\ issued = <<>> /\ clock = 0
  /\ left = 0
  /\ NoSave


\* What Math.random().toString(36).substring(2, 9) returned, call after
\* call: ids that all differ, and a run in which an id repeats.
IdStreams == {<<<<"k", "3", "f">>, <<"9", "x", "a">>, <<"m", "0", "q">>, <<"z", "7", "c">>, <<"b", "2", "d">>>>,
              <<<<"k", "3", "f">>, <<"k", "3", "f">>, <<"m", "0", "q">>, <<"z", "7", "c">>, <<"b", "2", "d">>>>}

LinePool ==
  {<<"#", "#", " ", "[", "1", ".", "0", "]", " ", "-", " ", "2", "0", "2", "4", "-", "0", "1", "-", "0", "5">>,
   <<"#", " ", "v", "2", ".", "1", ".", "3">>,
   <<"1", ".", "2", " ", "-", " ", "2", "0", "2", "4", "/", "1", "/", "5">>,
   <<"V", "e", "r", "s", "i", "o", "n", ":", " ", "3", ".", "0">>,
   <<"#", "#", "#", " ", "F", "i", "x", "e", "d">>,
   <<"-", " ", "F", "i", "x", " ", "c", "v", "e">>,
   <<" ", "*", " ", "m", "i", "s", "c", " ">>,
   <<"-">>,
   <<"n", "o", "t", "e">>,
   <<>>}

\* lines.join('\n')
RECURSIVE join(_)
join(ls) ==
  IF ls = <<>> THEN <<>>
  ELSE IF Len(ls) = 1 THEN ls[1]
  ELSE join(SubSeq(ls, 1, Len(ls) - 1)) \o <<"\n">> \o ls[Len(ls)]

InitParse == NoParse /\ NoRender /\ NoDiff /\ NoEditor

\* The caller hands the text so far, one more line added, to the parser.
ParseText(line, rand) ==
  /\ Len(lines) < MaxLines
  /\ lines' = Append(lines, line)
  /\ text' = join(lines')
  /\ parsed' = parseChangelogText(text', rand)
  /\ UNCHANGED <<probe, renderVars, diffVars, editorVars>>

NextParse == \E line \in LinePool, rand \in IdStreams : ParseText(line, rand)

SpecParse == InitParse /\ [][NextParse]_vars

\* ------------------------------------------------- the text, line by line
\* What the claims say of a text, read off its lines without the parser's
\* cursor.
\* The lines of the pool, read once.
PoolHeaders == {line \in LinePool : versionMatch(trim(line)).matched}

PoolItems == {line \in LinePool : listItemPattern(trim(line)).matched}

IsVersionHeader(line) ==
  IF line \in LinePool THEN line \in PoolHeaders ELSE versionMatch(trim(line)).matched

IsListItem(line) ==
  IF line \in LinePool THEN line \in PoolItems ELSE listItemPattern(trim(line)).matched

HeaderLines == {i \in 1..Len(lines) : IsVersionHeader(lines[i])}

ItemLines == {i \in 1..Len(lines) : IsListItem(lines[i])}

\* The list items between header line h and the next header (or the end).
ItemsOf(hs, is, h) == {j \in is : j > h /\ \A g \in hs : g <= h \/ g > j}

\* The headers that have a list item of their own.
KeptHeaders == LET hs == HeaderLines
                   is == ItemLines
               IN {h \in hs : ItemsOf(hs, is, h) # {}}

\* The text of the lines without the i-th.
WithoutLine(i) ==
  join([k \in 1..(Len(lines) - 1) |-> IF k < i THEN lines[k] ELSE lines[k + 1]])

\* A release without its ids.
Content(r) ==
  [version |-> r.version, date |-> r.date,
   changes |-> [m \in 1..Len(r.changes) |->
                  [type |-> r.changes[m].type, description |-> r.changes[m].description]]]

Contents(rs) == [k \in 1..Len(rs) |-> Content(rs[k])]

\* The parse of a text up to the ids, which are drawn afresh by every parse.
ParsedContent(t) == Contents(parseChangelogText(t, <<0, 0, 0, 0, 0, 0>>))

\* C1: every release parseChangelogText returns has at least one change, and
\* a version header with no list item before the next version header (or
\* the end of the text) gives no release: there are exactly as many releases
\* as headers with a list item of their own.
C1_NoEmptyRelease ==
  /\ \A k \in 1..Len(parsed) : Len(parsed[k].changes) >= 1
  /\ Len(parsed) = Cardinality(KeptHeaders)

\* C1 witness: a header without list items was read and dropped, and a
\* release was returned.
C1_Witness == Cardinality(HeaderLines) > Len(parsed) /\ Len(parsed) >= 1

\* C2: the releases are, in document order, the version headers with a list
\* item between them and the next header, each with exactly those list
\* items as its changes, in document order; list items before the first
\* header are in no release.
C2_ReleasesAreHeadersWithItems ==
  LET hs == HeaderLines
      is == ItemLines
      kept == {h \in hs : ItemsOf(hs, is, h) # {}}
  IN /\ Len(parsed) = Cardinality(kept)
     /\ \A k \in 1..Len(parsed) :
          LET h == Nth(kept, k)
              items == ItemsOf(hs, is, h)
          IN /\ parsed[k].version = versionMatch(trim(lines[h])).version
             /\ Len(parsed[k].changes) = Cardinality(items)
             /\ \A m \in 1..Len(parsed[k].changes) :
                  parsed[k].changes[m].description
                    = trim(listItemPattern(trim(lines[Nth(items, m)])).text)

\* C2 witness: two releases of different versions were returned, each with
\* the list item of its own header.
C2_Witness ==
  /\ Len(parsed) = 2 /\ parsed[1].version # parsed[2].version
  /\ parsed[1].changes[1].description # parsed[2].changes[1].description

\* A line the claim C4 is about: not blank, and its first character is
\* neither the heading marker nor a bullet marker.
IsPlainLine(line) == trim(line) # <<>> /\ trim(line)[1] \notin ({"#"} \cup Bullets)

\* C4 as claimed: whatever its text, a plain line is ignored (the text
\* without it parses to the same releases).
C4_PlainLineIgnored ==
  \A i \in 1..Len(lines) :
    IsPlainLine(lines[i]) => Contents(parsed) = ParsedContent(WithoutLine(i))

\* C4 amended: a plain line is ignored unless it is a bare version line
\* (the second and third version patterns need no heading marker); a bare
\* version line is a version header like any other.
C4_PlainLineIgnoredUnlessVersion ==
  \A i \in 1..Len(lines) :
    IsPlainLine(lines[i]) /\ ~IsVersionHeader(lines[i])
      => Contents(parsed) = ParsedContent(WithoutLine(i))

\* C4 witness: a plain line that is no version header stands between a
\* section header and a list item of a returned release.
C4_Witness ==
  \E i \in 2..(Len(lines) - 1) :
    /\ IsPlainLine(lines[i]) /\ ~IsVersionHeader(lines[i])
    /\ sectionMatch(trim(lines[i - 1])) # ""
    /\ IsListItem(lines[i + 1])
    /\ Len(parsed) >= 1

\* ------------------------------------------------------- one line at a time
\* Texts built around one line: a list item under each section header, and
\* a heading line with one, two or three '#' before a list item.
DescPool ==
  {<<"F", "i", "x", " ", "a">>, <<"b", "u", "g">>, <<"A", "d", "d", " ", "b">>, <<"n", "e", "w", " ", "c">>, <<"n", "e", "w", "e", "r">>, <<"R", "e", "m", "o", "v", "e">>, <<"d", "e", "l", "e", "t", "e", "d">>,
   <<"S", "e", "c", "u", "r", "i", "t", "y">>, <<"a", " ", "V", "u", "l", "n", "e", "r", "a", "b", "i", "l", "i", "t", "y">>, <<"x", " ", "C", "V", "E", "-", "1">>, <<"D", "e", "p", "r", "e", "c", "a", "t", "e">>, <<"U", "p", "d", "a", "t", "e", "d">>,
   <<"c", "h", "a", "n", "g", "e">>, <<"I", "m", "p", "r", "o", "v", "e">>, <<"m", "i", "s", "c">>, <<"f", "i", "x", " ", "c", "v", "e">>, <<"a", "d", "d", " ", "u", "p", "d", "a", "t", "e">>, <<"p", "r", "e", "f", "i", "x">>}

\* The words the section patterns are written for, as an author types them,
\* each with the category the specification gives it.
SynonymPool ==
  {[type |-> "added", word |-> <<"A", "d", "d", "e", "d">>], [type |-> "added", word |-> <<"n", "e", "w">>],
   [type |-> "added", word |-> <<"F", "e", "a", "t", "u", "r", "e">>], [type |-> "added", word |-> <<"f", "e", "a", "t", "u", "r", "e", "s">>],
   [type |-> "changed", word |-> <<"C", "h", "a", "n", "g", "e", "d">>], [type |-> "changed", word |-> <<"u", "p", "d", "a", "t", "e">>],
   [type |-> "changed", word |-> <<"U", "p", "d", "a", "t", "e", "d">>], [type |-> "changed", word |-> <<"m", "o", "d", "i", "f", "i", "e", "d">>],
   [type |-> "fixed", word |-> <<"F", "i", "x", "e", "d">>], [type |-> "fixed", word |-> <<"B", "u", "g", " ", "f", "i", "x">>],
   [type |-> "fixed", word |-> <<"b", "u", "g", "f", "i", "x">>], [type |-> "fixed", word |-> <<"F", "i", "x", "e", "s">>],
   [type |-> "removed", word |-> <<"R", "e", "m", "o", "v", "e", "d">>], [type |-> "removed", word |-> <<"d", "e", "l", "e", "t", "e", "d">>],
   [type |-> "security", word |-> <<"S", "e", "c", "u", "r", "i", "t", "y">>],
   [type |-> "deprecated", word |-> <<"D", "e", "p", "r", "e", "c", "a", "t", "e", "d">>]}

VersionPool == {<<"2", ".", "5">>, <<"[", "v", "2", ".", "5", ".", "1", "]", " ", "-", " ", "2", "0", "2", "4", "/", "1", "/", "5">>}

Hashes(n) == [i \in 1..n |-> "#"]

FirstHeader == <<"#", "#", " ", "[", "1", ".", "0", "]", " ", "-", " ", "2", "0", "2", "4", "-", "0", "1", "-", "0", "5">>

\* A list item under the section header of category t.
ProbeItem(t, desc, rand) ==
  /\ lines' = <<FirstHeader, <<"#", "#", "#", " ">> \o label(t), <<"-", " ">> \o desc>>
  /\ text' = join(lines')
  /\ parsed' = parseChangelogText(text', rand)
  /\ probe' = [kind |-> "item", hashes |-> 0, type |-> t, prior |-> t, word |-> desc]
  /\ UNCHANGED <<renderVars, diffVars, editorVars>>

\* A heading of n '#' and a category word, after the section header of
\* category `prior` and before a list item no keyword rule matches.
ProbeHeading(n, syn, prior, rand) ==
  /\ lines' = <<FirstHeader, <<"#", "#", "#", " ">> \o label(prior),
                Hashes(n) \o <<" ">> \o syn.word, <<"*", " ", "m", "i", "s", "c">>>>
  /\ text' = join(lines')
  /\ parsed' = parseChangelogText(text', rand)
  /\ probe' = [kind |-> "heading", hashes |-> n, type |-> syn.type, prior |-> prior,
               word |-> syn.word]
  /\ UNCHANGED <<renderVars, diffVars, editorVars>>

\* A heading of n '#' and a version, between two list items.
ProbeVersion(n, v, rand) ==
  /\ lines' = <<FirstHeader, <<"-", " ", "a">>, Hashes(n) \o <<" ">> \o v, <<"*", " ", "m", "i", "s", "c">>>>
  /\ text' = join(lines')
  /\ parsed' = parseChangelogText(text', rand)
  /\ probe' = [kind |-> "version", hashes |-> n, type |-> "", prior |-> "", word |-> v]
  /\ UNCHANGED <<renderVars, diffVars, editorVars>>

\* What stands before the version number of a header, the version numbers
\* and what follows them.
HeaderPrefixPool == {<<"#", "#", " ", "[">>, <<"#", " ", "v">>, <<"#", "#">>, <<"V">>, <<>>, <<"V", "e", "r", "s", "i", "o", "n", ":", " ">>}

HeaderVersionPool == {<<"1", ".", "0">>, <<"2", ".", "1", ".", "3">>}

HeaderTailPool ==
  {<<>>, <<"]", " ", "-", " ", "2", "0", "2", "4", "-", "0", "1", "-", "0", "5">>, <<" ", "-", " ", "2", "0", "2", "4", "/", "1", "/", "5">>, <<" ", "2", "0", "2", "4", "/", "0", "1", "-", "5">>, <<"-", "2", "0", "2", "4", "-", "0", "1", "-", "0", "5">>,
   <<" ", "(", "x", ")", " ", "1", "2", "0", "2", "4", "-", "1", "2", "-", "3", "4", "5", " ", "2", "0", "2", "5", "-", "0", "1", "-", "0", "1">>, <<" ", "-", " ", "2", "4", "-", "0", "1", "-", "0", "5">>, <<" ", "U+2013", " ", "r", "e", "l", "e", "a", "s", "e", "d", " ", "2", "0", "2", "4", "-", "1">>,
   <<" ", "2", "0", "2", "4", "-", "0", "0", "1", "-", "0", "5", " ", "t", "h", "e", "n", " ", "2", "0", "2", "3", "/", "2", "/", "3">>, <<" ", "2", "0", "2", "4", ".", "0", "1", ".", "0", "5">>}

\* A version header of these three parts before a list item.
ProbeDate(prefix, version, tail, rand) ==
  /\ lines' = <<prefix \o version \o tail, <<"-", " ", "a">>>>
  /\ text' = join(lines')
  /\ parsed' = parseChangelogText(text', rand)
  /\ probe' = [kind |-> "date", hashes |-> 0, type |-> "", prior |-> "", word |-> tail]
  /\ UNCHANGED <<renderVars, diffVars, editorVars>>

\* The parts of a bullet line: what stands before the marker, the marker,
\* the space after it and the rest of the line.
BulletLeadPool == {<<>>, <<" ", " ">>}

BulletMarkerPool == {<<"-">>, <<"*">>, <<"U+2022">>, <<"+">>, <<"-", "-">>}

BulletPadPool == {<<>>, <<" ">>, <<" ", "\t", " ">>}

BulletRestPool == {<<>>, <<"x">>, <<"y", " ", " ">>, <<"a", " ", " ", "b", "\t">>, <<"-">>, <<"F", "i", "x">>}

\* A bullet line of these parts after a list item of the first release.
ProbeBullet(lead, marker, pad, rest, rand) ==
  /\ lines' = <<FirstHeader, <<"-", " ", "o", "k">>, lead \o marker \o pad \o rest>>
  /\ text' = join(lines')
  /\ parsed' = parseChangelogText(text', rand)
  /\ probe' = [kind |-> "bullet", hashes |-> 0, type |-> "", prior |-> "", word |-> rest]
  /\ UNCHANGED <<renderVars, diffVars, editorVars>>

\* Each text is parsed on its own: parseChangelogText keeps nothing between
\* two calls.
NextProbe ==
  \E rand \in IdStreams :
    /\ probe = NoProbe
    /\ \/ \E t \in ChangeTypeSet, desc \in DescPool : ProbeItem(t, desc, rand)
       \/ \E n \in 1..3, syn \in SynonymPool, prior \in {"fixed", "security"} :
            ProbeHeading(n, syn, prior, rand)
       \/ \E n \in 1..3, v \in VersionPool : ProbeVersion(n, v, rand)
       \/ \E prefix \in HeaderPrefixPool, version \in HeaderVersionPool, tail \in HeaderTailPool :
            ProbeDate(prefix, version, tail, rand)
       \/ \E lead \in BulletLeadPool, marker \in BulletMarkerPool, pad \in BulletPadPool,
               rest \in BulletRestPool :
            ProbeBullet(lead, marker, pad, rest, rand)

SpecProbe == InitParse /\ [][NextProbe]_vars

\* The category of the last change of the last release returned.
LastType == parsed[Len(parsed)].changes[Len(parsed[Len(parsed)].changes)].type

C5_OneOrTwoHashes ==
  /\ probe.kind = "heading" /\ probe.hashes \in {1, 2} => LastType = probe.type
  /\ probe.kind = "version" /\ probe.hashes \in {1, 2} => Len(parsed) = 2

\* C5 amended: a category header has two or three '#'; a heading of one '#'
\* and a category word is ignored and leaves the active category as it was.
\* A version header has one or two '#'; a heading of three '#' and a version
\* is ignored.
C5_TwoOrThreeHashes ==
  /\ probe.kind = "heading" =>
       LastType = IF probe.hashes \in {2, 3} THEN probe.type ELSE probe.prior
  /\ probe.kind = "version" =>
       /\ Len(parsed) = IF probe.hashes \in {1, 2} THEN 2 ELSE 1
       /\ Len(parsed[Len(parsed)].changes) = IF probe.hashes \in {1, 2} THEN 1 ELSE 2
       /\ probe.hashes \in {1, 2} =>
            parsed[2].version = versionMatch(Hashes(2) \o probe.word).version

\* C5 witness: a heading of three '#' changed the active category.
C5_Witness ==
  /\ probe.kind = "heading" /\ probe.hashes = 3
  /\ probe.type # probe.prior /\ LastType = probe.type

\* --------------------------------------------------------- the renderers
\* The ids generateId gave the changes of a ReleaseSet, in creation order.
InputIds == <<<<"k", "3", "f">>, <<"9", "x", "a">>, <<"m", "0", "q">>, <<"z", "7", "c">>, <<"b", "2", "d">>>>

Header(version, date) == [version |-> version, date |-> date]

Change(type, description) == [type |-> type, description |-> description]

RECURSIVE Sum(_, _)
Sum(f, i) == IF i > Len(f) THEN 0 ELSE f[i] + Sum(f, i + 1)

\* The ways to give n changes to at most MaxReleases releases, a release
\* taking none included.
Cuts(n) == UNION {{f \in [1..m -> 0..n] : Sum(f, 1) = n} : m \in 0..MaxReleases}

\* The Release[] whose k-th release has the k-th header and the next cut[k]
\* changes of `flat`.
Assemble(headers, flat, cut) ==
  [k \in 1..Len(cut) |->
     LET before == Sum(SubSeq(cut, 1, k - 1), 1)
     IN [version |-> headers[k].version, date |-> headers[k].date,
         changes |-> [j \in 1..cut[k] |->
                        [id |-> InputIds[before + j], type |-> flat[before + j].type,
                         description |-> flat[before + j].description]]]]

\* At most MaxChanges changes of the pool.
ChangeLists(pool) == UNION {[1..n -> pool] : n \in 0..MaxChanges}

\* The renderer is handed a Release[] of at most MaxReleases releases and
\* MaxChanges changes, headers from one of the lists, changes from the pool.
InitWith(headerLists, pool) ==
  /\ NoParse
  /\ \E flat \in ChangeLists(pool) :
       \E headers \in headerLists, cut \in Cuts(Len(flat)) :
         releases = Assemble(headers, flat, cut)
  /\ stage = "none" /\ output = <<>> /\ decoded = <<>>
  /\ NoDiff /\ NoEditor

RenderHeaders ==
  {<<Header(<<"1", ".", "1", ".", "0">>, <<"2", "0", "2", "4", "-", "0", "2", "-", "0", "1">>), Header(<<"1", ".", "0", ".", "0">>, <<"2", "0", "2", "4", "-", "0", "1", "-", "0", "5">>),
     Header(<<"0", ".", "9", ".", "0">>, <<"2", "0", "2", "3", "-", "1", "2", "-", "2", "4">>)>>}

\* Changes of the first, the second, the third and the last type of the
\* taxonomy, and a second 'added' change whose description is the text of a
\* heading.
RenderPool ==
  {Change(t, <<"x">>) : t \in {"added", "changed", "fixed", "deprecated"}}
    \cup {Change("added", <<"#", "#", "#", " ", "F", "i", "x", "e", "d">>)}

InitRender == InitWith(RenderHeaders, RenderPool)

RenderMarkdown ==
  /\ stage = "none"
  /\ stage' = "markdown"
  /\ output' = generateMarkdown(releases)
  /\ UNCHANGED <<releases, decoded, parserVars, diffVars, editorVars>>

RenderJSON ==
  /\ stage = "none"
  /\ stage' = "json"
  /\ output' = generateJSON(releases)
  /\ UNCHANGED <<releases, decoded, parserVars, diffVars, editorVars>>

RenderHTML ==
  /\ stage = "none"
  /\ stage' = "html"
  /\ output' = generateHTML(releases)
  /\ UNCHANGED <<releases, decoded, parserVars, diffVars, editorVars>>

NextRender == RenderMarkdown \/ RenderJSON \/ RenderHTML

SpecRender == InitRender /\ [][NextRender]_vars

\* Reading a rendered text back.  The k-th part of a sequence cut before
\* each of the positions `starts`, the element at the cut left out.
Part(s, starts, k) ==
  SubSeq(s, Nth(starts, k) + 1,
         IF k < Cardinality(starts) THEN Nth(starts, k + 1) - 1 ELSE Len(s))

IsReleaseHeading(line) == startsWith(line, <<"#", "#", " ", "[">>)

IsCategoryHeading(line) == startsWith(line, <<"#", "#", "#", " ">>)

IsListLine(line) == startsWith(line, <<"-", " ">>)

\* For every release heading of the Markdown text, the lines that follow it
\* up to the next release heading.
MdBlocks ==
  LET ls == split(output)
      starts == {i \in 1..Len(ls) : IsReleaseHeading(ls[i])}
  IN [k \in 1..Cardinality(starts) |-> Part(ls, starts, k)]

Last(S) == CHOOSE x \in S : \A y \in S : x >= y

\* The descriptions of the list lines of a block that stand under a heading
\* '### wanted': the category heading last read before them is that one.
mdListed(block, wanted) ==
  LET headingOf(i) ==
        LET before == {j \in 1..i : IsCategoryHeading(block[j])}
        IN IF before = {} THEN <<>> ELSE From(block[Last(before)], 5)
      hits == {i \in 1..Len(block) : IsListLine(block[i]) /\ headingOf(i) = wanted}
  IN [n \in 1..Cardinality(hits) |-> From(block[Nth(hits, n)], 3)]

\* For every card of the HTML text, the symbols that follow its opening up
\* to the opening of the next card.
HtmlCards ==
  LET starts == {i \in 1..Len(output) : output[i] = HtmlReleaseOpen}
  IN [k \in 1..Cardinality(starts) |-> Part(output, starts, k)]

Until(s, i, symbol) ==
  LET hits == {j \in i..Len(s) : s[j] = symbol}
  IN IF hits = {} THEN Len(s) + 1 ELSE CHOOSE j \in hits : \A h \in hits : j <= h

\* The texts of the list items of a card that stand in a section titled
\* `wanted`: the section title last read before them is that one.
htmlListed(card, wanted) ==
  LET titleOf(i) ==
        LET before == {j \in 1..i : card[j] = HtmlColorClose}
        IN IF before = {} THEN <<>>
           ELSE SubSeq(card, Last(before) + 1, Until(card, Last(before), HtmlTitleClose) - 1)
      hits == {i \in 1..Len(card) : card[i] = HtmlItemOpen /\ titleOf(i) = wanted}
  IN [n \in 1..Cardinality(hits) |->
        SubSeq(card, Nth(hits, n) + 1, Until(card, Nth(hits, n), HtmlItemClose) - 1)]

HtmlTitle(t) == emoji(t) \o <<" ">> \o label(t)

\* The changes of one type, in stored order, and what a list says of them.
OfType(changes, t) == SelectSeq(changes, LAMBDA c : c.type = t)

Descriptions(changes) == [m \in 1..Len(changes) |-> changes[m].description]

Types(changes) == [m \in 1..Len(changes) |-> changes[m].type]

\* The types that occur in a list of changes, in the order of the taxonomy.
PresentTypes(changes) ==
  SelectSeq(ChangeType, LAMBDA t : \E m \in 1..Len(changes) : changes[m].type = t)

\* C6: in the Markdown text, the block of every release has exactly one
\* '### <Label>' heading for each category that occurs in its changes and
\* none for a category that does not, in the order added, changed, fixed,
\* removed, security, deprecated, whatever the order of the changes.
C6_OneHeadingPerCategory ==
  stage = "markdown" =>
    LET blocks == MdBlocks
    IN /\ Len(blocks) = Len(releases)
       /\ \A k \in 1..Len(releases) :
            LET present == PresentTypes(releases[k].changes)
            IN SelectSeq(blocks[k], IsCategoryHeading)
                 = [n \in 1..Len(present) |-> <<"#", "#", "#", " ">> \o label(present[n])]

\* C6 witness: a release whose changes are stored against the order of the
\* taxonomy (deprecated, fixed, added) was rendered, with three headings.
C6_Witness ==
  /\ stage = "markdown" /\ Len(releases) >= 1
  /\ Types(releases[1].changes) = <<"deprecated", "fixed", "added">>
  /\ Len(SelectSeq(MdBlocks[1], IsCategoryHeading)) = 3

\* C7: in the Markdown text and in the HTML text, for every release and
\* every category, the changes listed under the category are the release's
\* changes of that category, each once and in stored order; no list item
\* stands anywhere else.
C7_StableRegrouping ==
  /\ stage = "markdown" =>
       LET blocks == MdBlocks
       IN /\ Len(blocks) = Len(releases)
          /\ \A k \in 1..Len(releases) :
               LET block == blocks[k]
                   changes == releases[k].changes
               IN /\ \A t \in ChangeTypeSet :
                       mdListed(block, label(t)) = Descriptions(OfType(changes, t))
                  /\ Len(SelectSeq(block, IsListLine)) = Len(changes)
  /\ stage = "html" =>
       LET cards == HtmlCards
       IN /\ Len(cards) = Len(releases)
          /\ \A k \in 1..Len(releases) :
               LET card == cards[k]
                   changes == releases[k].changes
               IN /\ \A t \in ChangeTypeSet :
                       htmlListed(card, HtmlTitle(t))
                         = Descriptions(OfType(changes, t))
                  /\ Len(SelectSeq(card, LAMBDA a : a = HtmlItemOpen)) = Len(changes)

\* C7 witness: an HTML card lists two 'added' changes in stored order, a
\* change of another category stored between them.
C7_Witness ==
  /\ stage = "html" /\ Len(releases) >= 1
  /\ Types(releases[1].changes) = <<"added", "fixed", "added">>
  /\ htmlListed(HtmlCards[1], HtmlTitle("added")) = <<<<"#", "#", "#", " ", "F", "i", "x", "e", "d">>, <<"x">>>>

\* The heading line and the blank line generateMarkdown writes for a release.
RECURSIVE headingsOnly(_, _)
headingsOnly(rs, k) ==
  IF k > Len(rs) THEN <<>>
  ELSE <<"#", "#", " ", "[">> \o rs[k].version \o <<"]", " ", "-", " ">> \o rs[k].date \o <<"\n", "\n">>
         \o headingsOnly(rs, k + 1)

AllEmpty(rs) == \A k \in 1..Len(rs) : rs[k].changes = <<>>

\* What the three renderers return for the empty ReleaseSet.
EmptySetRendered ==
  /\ stage = "markdown" /\ releases = <<>> => output = MdTitle
  /\ stage = "json" /\ releases = <<>> =>
       JSONparse(output).val
         = [k |-> "obj", v |-> <<[key |-> <<"r", "e", "l", "e", "a", "s", "e", "s">>, val |-> [k |-> "arr", v |-> <<>>]]>>]
  /\ stage = "html" /\ releases = <<>> => output = <<HtmlHead, HtmlTail>>

\* C10 as claimed: for a ReleaseSet in which every release has an empty
\* changes list, generateMarkdown returns the title block and nothing else.
C10_TitleBlockOnly ==
  /\ stage = "markdown" /\ AllEmpty(releases) => output = MdTitle
  /\ EmptySetRendered

\* C10 amended: for a ReleaseSet in which every release has an empty changes
\* list, generateMarkdown returns the title block followed by the heading
\* line '## [version] - date' and a blank line of every release, with no
\* category heading and no list line: the title block alone only for the
\* empty ReleaseSet.  generateJSON of the empty ReleaseSet is an object whose
\* only field 'releases' is an empty list, and generateHTML of it is the
\* document shell with no card.
C10_TitleAndReleaseHeadings ==
  /\ stage = "markdown" /\ AllEmpty(releases) =>
       /\ output = MdTitle \o headingsOnly(releases, 1)
       /\ output = MdTitle <=> releases = <<>>
  /\ EmptySetRendered

\* C10 witness: two releases without changes were rendered to Markdown.
C10_Witness ==
  /\ stage = "markdown" /\ Len(releases) = 2 /\ AllEmpty(releases)
  /\ Len(MdBlocks) = 2

\* ------------------------------------------------------- JSON round trip
\* Descriptions with the characters JSON escapes, and an empty one.
JsonPool ==
  {Change("added", <<"x">>), Change("fixed", <<"s", "a", "y", " ", "\"", "a", "\\", "b", "\"">>), Change("changed", <<"a", "\t", "b">>),
   Change("security", <<>>)}

InitJSON == InitWith(RenderHeaders, JsonPool)

\* JSON.parse(text).releases
DecodeJSON ==
  /\ stage = "json"
  /\ stage' = "decoded"
  /\ decoded' = asReleases(member(JSONparse(output).val, <<"r", "e", "l", "e", "a", "s", "e", "s">>))
  /\ UNCHANGED <<releases, output, parserVars, diffVars, editorVars>>

NextJSON == RenderJSON \/ DecodeJSON

SpecJSON == InitJSON /\ [][NextJSON]_vars

NoEmptyEntry(rs) ==
  \A k \in 1..Len(rs) :
    /\ rs[k].changes # <<>>
    /\ \A m \in 1..Len(rs[k].changes) : rs[k].changes[m].description # <<>>

\* C8: for a ReleaseSet with no release without changes and no entry with an
\* empty description, the 'releases' field of the decoded text of
\* generateJSON equals the ReleaseSet: same releases in the same order, each
\* with the same version, date and changes (id, type, description).
C8_JsonRoundTrip ==
  stage = "decoded" /\ NoEmptyEntry(releases) => decoded = releases

\* C8 witness: two releases came back, a description with quotation marks
\* and a reverse solidus among them.
C8_Witness ==
  /\ stage = "decoded" /\ NoEmptyEntry(releases) /\ Len(decoded) = 2
  /\ \E m \in 1..Len(decoded[2].changes) :
       includes(decoded[2].changes[m].description, <<"\"", "a", "\\", "b", "\"">>)

\* --------------------------------------------------- Markdown round trip
\* Headers the parser reads back as written; and a version with a suffix
\* followed by a date left empty.
RoundTripHeaders ==
  {<<Header(<<"1", ".", "2", ".", "0">>, <<"2", "0", "2", "4", "-", "0", "2", "-", "0", "1">>), Header(<<"1", ".", "1">>, <<"2", "0", "2", "4", "-", "0", "1", "-", "0", "5">>),
     Header(<<"1", ".", "0", ".", "0">>, <<"2", "0", "2", "3", "-", "1", "2", "-", "2", "4">>)>>,
   <<Header(<<"1", ".", "2", ".", "0", "-", "b", "e", "t", "a">>, <<"2", "0", "2", "4", "-", "0", "2", "-", "0", "1">>), Header(<<"1", ".", "1">>, <<>>),
     Header(<<"1", ".", "0", ".", "0">>, <<"2", "0", "2", "3", "-", "1", "2", "-", "2", "4">>)>>}

\* A description no keyword rule matches, one a rule matches, one with
\* white space in front and an empty one.
RoundTripPool ==
  {Change("fixed", <<"x">>), Change("changed", <<"F", "i", "x", " ", "a">>), Change("added", <<" ", "y">>),
   Change("security", <<>>)}

\* The ids generateId gives the list items of the text, all new.
FreshIds == <<<<"q", "8", "w">>, <<"e", "1", "r">>, <<"t", "5", "y">>, <<"u", "2", "i">>, <<"o", "7", "p">>>>

InitRoundTrip == InitWith(RoundTripHeaders, RoundTripPool)

\* parseChangelogText(generateMarkdown(releases))
ParseMarkdown ==
  /\ stage = "markdown"
  /\ stage' = "parsed"
  /\ text' = output
  /\ lines' = split(output)
  /\ parsed' = parseChangelogText(output, FreshIds)
  /\ UNCHANGED <<probe, releases, output, decoded, diffVars, editorVars>>

NextRoundTrip == RenderMarkdown \/ ParseMarkdown

SpecRoundTrip == InitRoundTrip /\ [][NextRoundTrip]_vars

Count(s, x) == Cardinality({i \in 1..Len(s) : s[i] = x})

SameMultiset(a, b) ==
  Len(a) = Len(b) /\ \A i \in 1..Len(a) : Count(a, a[i]) = Count(b, a[i])

EachHasChange(rs) == \A k \in 1..Len(rs) : rs[k].changes # <<>>

\* Every description is a text of one line, not empty and with no white
\* space around it.
PlainDescriptions(rs) ==
  \A k \in 1..Len(rs) : \A m \in 1..Len(rs[k].changes) :
    LET d == rs[k].changes[m].description
    IN d # <<>> /\ trim(d) = d /\ "\n" \notin {d[i] : i \in 1..Len(d)}

IsVersionNumber(v) ==
  LET dots == {i \in 1..Len(v) : v[i] = "."}
  IN /\ Cardinality(dots) \in {1, 2}
     /\ \A i \in 1..Len(v) : v[i] \in Digits \cup {"."}
     /\ \A i \in dots : At(v, i - 1) \in Digits /\ At(v, i + 1) \in Digits

\* Four digits, '-', one or two digits, '-', one or two digits.
IsDate(d) ==
  LET dashes == {i \in 1..Len(d) : d[i] = "-"}
  IN /\ Cardinality(dashes) = 2
     /\ \A i \in 1..Len(d) : d[i] \in Digits \cup {"-"}
     /\ Nth(dashes, 1) = 5
     /\ Nth(dashes, 2) - 5 \in {2, 3}
     /\ Len(d) - Nth(dashes, 2) \in {1, 2}

PlainHeaders(rs) ==
  \A k \in 1..Len(rs) : IsVersionNumber(rs[k].version) /\ IsDate(rs[k].date)

\* The changes of a release in the order the renderer lists them.
RECURSIVE regrouped(_, _)
regrouped(changes, k) ==
  IF k > Len(ChangeType) THEN <<>>
  ELSE OfType(changes, ChangeType[k]) \o regrouped(changes, k + 1)

NoKeyword(rs) ==
  \A k \in 1..Len(rs) : \A m \in 1..Len(rs[k].changes) :
    \A t \in ChangeTypeSet : detectType(t, rs[k].changes[m].description) = t

DiffHeaders ==
  {<<>>,
   <<Header(<<"1", ".", "0">>, <<"2", "0", "2", "4", "-", "0", "1", "-", "0", "5">>)>>,
   <<Header(<<"1", ".", "0">>, <<"2", "0", "2", "4", "-", "0", "2", "-", "0", "1">>)>>,
   <<Header(<<>>, <<"2", "0", "2", "4", "-", "0", "1", "-", "0", "5">>)>>,
   <<Header(<<"1", ".", "0", ":">>, <<"2", "0", "2", "4", "-", "0", "1", "-", "0", "5">>)>>,
   <<Header(<<"1", ".", "0">>, <<"2", "0", "2", "4", "-", "0", "1", "-", "0", "5">>), Header(<<"2", ".", "0">>, <<"2", "0", "2", "4", "-", "0", "2", "-", "0", "1">>)>>,
   <<Header(<<"2", ".", "0">>, <<"2", "0", "2", "4", "-", "0", "2", "-", "0", "1">>), Header(<<"1", ".", "0">>, <<"2", "0", "2", "4", "-", "0", "1", "-", "0", "5">>)>>,
   <<Header(<<"1", ".", "0">>, <<"2", "0", "2", "4", "-", "0", "1", "-", "0", "5">>), Header(<<"1", ".", "0">>, <<"2", "0", "2", "4", "-", "0", "2", "-", "0", "1">>)>>,
   <<Header(<<"3", ".", "0">>, <<"2", "0", "2", "4", "-", "0", "1", "-", "0", "5">>), Header(<<"4", ".", "0">>, <<"2", "0", "2", "4", "-", "0", "2", "-", "0", "1">>)>>,
   <<Header(<<>>, <<"2", "0", "2", "4", "-", "0", "1", "-", "0", "5">>), Header(<<"2", ".", "0">>, <<"2", "0", "2", "4", "-", "0", "2", "-", "0", "1">>)>>}

\* The changes of one release: none, one, the same one twice, one with an
\* empty description after one of another category, and a blank
\* description before one that holds the separator of the keys.
DiffChangeLists ==
  {<<>>,
   <<Change("added", <<"x">>)>>,
   <<Change("added", <<"x">>), Change("added", <<"x">>)>>,
   <<Change("fixed", <<"x">>), Change("added", <<>>)>>,
   <<Change("added", <<" ">>), Change("changed", <<"a", ":", ":", "b">>)>>}

\* The Release[] of the headers, each release with one of the lists of
\* changes, the ids in creation order.
DiffReleases(headers) ==
  {[k \in DOMAIN headers |->
      [version |-> headers[k].version, date |-> headers[k].date,
       changes |-> [j \in DOMAIN f[k] |->
                      [id |-> InputIds[2 * (k - 1) + j], type |-> f[k][j].type,
                       description |-> f[k][j].description]]]] :
     f \in [DOMAIN headers -> DiffChangeLists]}

\* Two snapshots of the history, or one snapshot twice.
InitDiff ==
  /\ NoParse /\ NoRender /\ NoEditor
  /\ \E ho \in DiffHeaders, hn \in DiffHeaders :
       \E ro \in DiffReleases(ho), rn \in DiffReleases(hn) :
         /\ older = VersionSnapshot(<<"q", "1", "w", "2", "e", "3", "r">>, <<"f", "i", "r", "s", "t">>, ro, <<"2", "0", "2", "6", "-", "1", "1", "-", "0", "3", "T", "0", "8", ":", "0", "0", ":", "0", "0", ".", "0", "0", "0", "Z">>)
         /\ newer \in {older,
                       VersionSnapshot(<<"a", "5", "s", "6", "d", "7", "f">>, <<"s", "e", "c", "o", "n", "d">>, rn,
                                       <<"2", "0", "2", "6", "-", "1", "1", "-", "0", "3", "T", "0", "8", ":", "0", "0", ":", "0", "1", ".", "0", "0", "0", "Z">>)}
  /\ diff = EmptyDiff

Diff ==
  /\ stage = "none"
  /\ stage' = "diffed"
  /\ diff' = diffVersions(older, newer)
  /\ UNCHANGED <<older, newer, releases, output, decoded, parserVars, editorVars>>

NextDiff == Diff

SpecDiff == InitDiff /\ [][NextDiff]_vars

\* C11: diffVersions(S, S) returns added = [], removed = [] and
\* modified = [] for every snapshot S, duplicate changes, empty
\* descriptions and empty versions included.
C11_SelfDiffEmpty ==
  stage = "diffed" /\ older = newer =>
    diff.added = <<>> /\ diff.removed = <<>> /\ diff.modified = <<>>

\* C11 witness: a snapshot of two releases, with a change that is there
\* twice and a change with an empty description, was compared with itself.
C11_Witness ==
  /\ stage = "diffed" /\ older = newer /\ Len(older.releases) = 2
  /\ \E r \in 1..2 : Len(older.releases[r].changes) = 2
                       /\ older.releases[r].changes[1].description
                            = older.releases[r].changes[2].description
  /\ \E r \in 1..2 : \E c \in DOMAIN older.releases[r].changes :
       older.releases[r].changes[c].description = <<>>
  /\ diff = EmptyDiff

\* The (version, category, description) triples of a Release[].
Triples(rs) ==
  UNION {{<<rs[i].version, rs[i].changes[j].type, rs[i].changes[j].description>> :
            j \in DOMAIN rs[i].changes} : i \in DOMAIN rs}

HasSeparator(cs) == \E i \in 1..(Len(cs) - 1) : cs[i] = ":" /\ cs[i + 1] = ":"

\* No version and no description of the snapshot contains '::'.
NoSeparator(snapshot) ==
  \A i \in DOMAIN snapshot.releases :
    /\ ~HasSeparator(snapshot.releases[i].version)
    /\ \A j \in DOMAIN snapshot.releases[i].changes :
         ~HasSeparator(snapshot.releases[i].changes[j].description)

\* No version of the snapshot ends in ':'.
NoColonAtEnd(snapshot) ==
  \A i \in DOMAIN snapshot.releases :
    LET v == snapshot.releases[i].version IN v = <<>> \/ v[Len(v)] # ":"

Occurrences(items, x) == Cardinality({k \in DOMAIN items : items[k] = x})

\* The items are one { release: v, change: d } for each of the triples
\* (v, c, d), and no other item.
OneItemPerTriple(items, triples) ==
  \A x \in {items[k] : k \in DOMAIN items}
             \cup {[release |-> t[1], change |-> t[3]] : t \in triples} :
    Occurrences(items, x)
      = Cardinality({t \in triples : t[1] = x.release /\ t[3] = x.change})

Filled(triples) == {t \in triples : t[3] # <<>>}

\* C12 as claimed: for snapshots whose versions and descriptions do not
\* contain '::', added holds exactly one item for each distinct triple of
\* newer that older has not, and removed one for each distinct triple of
\* older that newer has not.
C12_OneItemPerTriple ==
  stage = "diffed" /\ NoSeparator(older) /\ NoSeparator(newer) =>
    /\ OneItemPerTriple(diff.added, Triples(newer.releases) \ Triples(older.releases))
    /\ OneItemPerTriple(diff.removed, Triples(older.releases) \ Triples(newer.releases))

\* C12 amended: when moreover no version ends in ':', added holds exactly
\* one item for each distinct triple of newer that older has not and whose
\* description is not the empty string, and removed likewise; a triple
\* with an empty description gives no item.
C12_OneItemPerFilledTriple ==
  stage = "diffed" /\ NoSeparator(older) /\ NoSeparator(newer)
    /\ NoColonAtEnd(older) /\ NoColonAtEnd(newer) =>
    /\ OneItemPerTriple(diff.added,
                        Filled(Triples(newer.releases) \ Triples(older.releases)))
    /\ OneItemPerTriple(diff.removed,
                        Filled(Triples(older.releases) \ Triples(newer.releases)))

\* C12 witness: both lists hold an item, and newer has a triple with an
\* empty description that older has not and that gave none.
C12_Witness ==
  /\ stage = "diffed" /\ NoSeparator(older) /\ NoSeparator(newer)
  /\ NoColonAtEnd(older) /\ NoColonAtEnd(newer)
  /\ diff.added # <<>> /\ diff.removed # <<>>
  /\ \E t \in Triples(newer.releases) \ Triples(older.releases) : t[3] = <<>>
  /\ Len(diff.added) + 1
       = Cardinality(Triples(newer.releases) \ Triples(older.releases))

\* The distinct version strings of a snapshot.
VersionsOf(snapshot) == {snapshot.releases[i].version : i \in DOMAIN snapshot.releases}

\* C13: when older and newer have the same nonzero number of distinct
\* version strings, modified holds exactly one entry { release:
\* 'Version', oldVersion: o, newVersion: v } for every version v of newer
\* that older has not, o a version of older that newer has not; when the
\* numbers differ or are zero, modified is empty.  The empty version
\* string is a version as any other.
C13_OneRenamePerNewVersion ==
  stage = "diffed" =>
    LET ov == VersionsOf(older)
        nv == VersionsOf(newer)
    IN IF Cardinality(ov) = Cardinality(nv) /\ Cardinality(ov) > 0
         THEN /\ \A v \in nv \ ov :
                   Cardinality({k \in DOMAIN diff.modified :
                                  diff.modified[k].newVersion = v}) = 1
              /\ \A k \in DOMAIN diff.modified :
                   /\ diff.modified[k].release = <<"V", "e", "r", "s", "i", "o", "n">>
                   /\ diff.modified[k].newVersion \in nv \ ov
                   /\ diff.modified[k].oldVersion \in ov \ nv
         ELSE diff.modified = <<>>

\* -------------------------------------------------------------- the editor
\* A run of the editing handlers is cut after MaxCalls calls, a run of the
\* handlers of the version history after MaxClicks.
MaxCalls == 3

MaxClicks == 4

\* The page as it is mounted with an empty storage: one release '1.0.0'
\* with no change, no snapshot, the ids of the templates handed out.
InitPage(calls) ==
  /\ NoParse /\ NoDiff
  /\ releases = FirstReleases /\ stage = "none" /\ output = <<>> /\ decoded = <<>>
  /\ undoStack = <<>> /\ redoStack = <<>> /\ versionHistory = <<>>
  /\ compareVersions = <<<<>>, <<>>>> /\ versionDiff = <<>>
  /\ exportFormat = "markdown" /\ compareMode = FALSE
  /\ issued = TemplateIds /\ clock = 0
  /\ left = calls
  /\ NoSave

InitEditor == InitPage(MaxCalls)

\* releases.some(r => r.changes.some(c => c.description.trim()))
hasContent(rs) ==
  \E i \in DOMAIN rs : \E j \in DOMAIN rs[i].changes : trim(rs[i].changes[j].description) # <<>>

\* The auto-save effect, run after a render in which `releases` is a new
\* array `next`: the timer of the render before is cleared, and when next
\* has content a timer holding next is set and the flag raised.
autoSave(next) ==
  IF hasContent(next)
    THEN timer' = <<next>> /\ hasUnsavedChanges' = TRUE
    ELSE timer' = <<>> /\ hasUnsavedChanges' = hasUnsavedChanges

\* saveReleases: the text stored under 'shiplog-autosave'.
saveReleases(rs) == jsonText(releasesValue(rs))

\* getSavedReleases: the stored text parsed; <<>> for null, when nothing is
\* stored or the text does not parse.
getSavedReleases(stored) ==
  IF stored = <<>> THEN <<>>
  ELSE LET r == JSONparse(stored[1])
       IN IF r.ok THEN <<asReleases(r.val)>> ELSE <<>>

\* One more handler call.
Called == left > 0 /\ left' = left - 1

\* What n calls of generateId return: ids that all differ from the earlier
\* ones, or a run whose first id is the one returned last.
IdRuns(n) ==
  {[k \in 1..n |-> Id(Len(issued) + k)],
   [k \in 1..n |-> IF k = 1 THEN issued[Len(issued)] ELSE Id(Len(issued) + k)]}

\* updateReleases(updater), `next` being updater(prev).
Tracked(next) ==
  \E stacks \in {updateReleases(releases, next, undoStack, redoStack)} :
    /\ releases' = next
    /\ undoStack' = stacks.undo
    /\ redoStack' = stacks.redo
    /\ autoSave(next)
    /\ UNCHANGED <<showRestorePrompt, autosave>>

historyVars == <<versionHistory, compareVersions, versionDiff, compareMode, clock>>

exportVars == <<stage, output, decoded, exportFormat>>

AddRelease ==
  /\ Called
  /\ Tracked(<<newRelease(releases)>> \o releases)
  /\ UNCHANGED <<issued, historyVars, exportVars, parserVars, diffVars>>

\* The texts typed into the version field and picked in the date field.
UpdatePool ==
  {[field |-> "version", value |-> <<>>],
   [field |-> "version", value |-> <<"2", ".", "0">>],
   [field |-> "date", value |-> <<"2", "0", "2", "4", "-", "0", "1", "-", "0", "5">>]}

UpdateRelease(index, updates) ==
  /\ Called
  /\ Tracked(updateRelease(releases, index, updates))
  /\ UNCHANGED <<issued, historyVars, exportVars, parserVars, diffVars>>

\* Mutant of DeleteRelease: the delete button is there for the last release
\* too.
DeleteReleaseAlways(index) ==
  /\ Called
  /\ Tracked(deleteRelease(releases, index))
  /\ UNCHANGED <<issued, historyVars, exportVars, parserVars, diffVars>>

\* The delete button is there while releases.length > 1.
DeleteRelease(index) ==
  /\ Called
  /\ Len(releases) > 1
  /\ Tracked(deleteRelease(releases, index))
  /\ UNCHANGED <<issued, historyVars, exportVars, parserVars, diffVars>>

TypePool == {"added", "fixed"}

\* addChange, `id` being what generateId returns.
AddChange(releaseIndex, type, id) ==
  /\ Called
  /\ Tracked(addChange(releases, releaseIndex, type, id))
  /\ issued' = Append(issued, id)
  /\ UNCHANGED <<historyVars, exportVars, parserVars, diffVars>>

\* The texts typed into a description field.
DescriptionPool == {<<"x">>, <<" ">>, <<"a", "\\", "t">>}

UpdateChange(releaseIndex, changeId, description) ==
  /\ Called
  /\ Tracked(updateChange(releases, releaseIndex, changeId, description))
  /\ UNCHANGED <<issued, historyVars, exportVars, parserVars, diffVars>>

DeleteChange(releaseIndex, changeId) ==
  /\ Called
  /\ Tracked(deleteChange(releases, releaseIndex, changeId))
  /\ UNCHANGED <<issued, historyVars, exportVars, parserVars, diffVars>>

\* Mutant of undo: the live ReleaseSet is not put on the redo stack.
undoForgets(rs, undos, redos) ==
  IF Len(undos) = 0 THEN [releases |-> rs, undoStack |-> undos, redoStack |-> redos]
  ELSE [releases |-> undos[Len(undos)],
        undoStack |-> SubSeq(undos, 1, Len(undos) - 1),
        redoStack |-> redos]

\* undo(): the live ReleaseSet and the two stacks after the call; with an
\* empty undo stack it returns at once.
undo(rs, undos, redos) ==
  IF Len(undos) = 0 THEN [releases |-> rs, undoStack |-> undos, redoStack |-> redos]
  ELSE [releases |-> undos[Len(undos)],
        undoStack |-> SubSeq(undos, 1, Len(undos) - 1),
        redoStack |-> Append(redos, rs)]

\* redo()
redo(rs, undos, redos) ==
  IF Len(redos) = 0 THEN [releases |-> rs, undoStack |-> undos, redoStack |-> redos]
  ELSE [releases |-> redos[Len(redos)],
        undoStack |-> Append(undos, rs),
        redoStack |-> SubSeq(redos, 1, Len(redos) - 1)]

\* Ctrl+Z or the undo button; the auto-save effect runs when setReleases
\* was called.
Undo ==
  /\ Called
  /\ \E after \in {undo(releases, undoStack, redoStack)} :
       /\ releases' = after.releases
       /\ undoStack' = after.undoStack
       /\ redoStack' = after.redoStack
       /\ IF undoStack # <<>> THEN autoSave(after.releases)
          ELSE UNCHANGED <<timer, hasUnsavedChanges>>
  /\ UNCHANGED <<issued, historyVars, exportVars, parserVars, diffVars, showRestorePrompt,
                 autosave>>

\* Ctrl+Shift+Z, Ctrl+Y or the redo button.
Redo ==
  /\ Called
  /\ \E after \in {redo(releases, undoStack, redoStack)} :
       /\ releases' = after.releases
       /\ undoStack' = after.undoStack
       /\ redoStack' = after.redoStack
       /\ IF redoStack # <<>> THEN autoSave(after.releases)
          ELSE UNCHANGED <<timer, hasUnsavedChanges>>
  /\ UNCHANGED <<issued, historyVars, exportVars, parserVars, diffVars, showRestorePrompt,
                 autosave>>

ApplyTemplate(template) ==
  /\ Called
  /\ \E ids \in IdRuns(changeCount(template.releases, Len(template.releases))) :
       /\ releases' = withIds(template.releases, ids)
       /\ autoSave(withIds(template.releases, ids))
       /\ issued' = issued \o ids
  /\ showRestorePrompt' = FALSE
  /\ UNCHANGED <<undoStack, redoStack, historyVars, exportVars, parserVars, diffVars, autosave>>

ClearAll ==
  /\ Called
  /\ releases' = FirstReleases
  /\ autoSave(FirstReleases)
  /\ autosave' = <<>>
  /\ UNCHANGED <<undoStack, redoStack, issued, historyVars, exportVars, parserVars, diffVars,
                 showRestorePrompt>>

\* The names typed into the save dialog.
NamePool == {<<>>, <<" ", "r", "c", " ">>}

\* The id Math.random gives a snapshot: one no snapshot of the history
\* has, or the id of the last one.
SnapshotIds ==
  {<<"s", "7", "n", "2", "p">> \o twoDigits(clock) \o twoDigits(Len(versionHistory))}
    \cup {versionHistory[i].id : i \in {Len(versionHistory)} \ {0}}

\* handleSaveVersion; the clock shows the millisecond of the last reading
\* or the next one.
SaveVersion(versionName) ==
  /\ Called
  /\ \E id \in SnapshotIds, now \in {clock, clock + 1} :
       /\ versionHistory' = saveVersion(versionsText(versionHistory), id,
                                        snapshotName(versionName, releases), releases,
                                        toISOString(now))
       /\ clock' = now
  /\ UNCHANGED <<saveVars, releases, undoStack, redoStack,
                 compareVersions, versionDiff, compareMode,
                 issued, exportVars, parserVars, diffVars>>

\* The restore and delete buttons are there while compare mode is off.
RestoreVersion(version) ==
  /\ Called
  /\ ~compareMode
  /\ \E ids \in IdRuns(changeCount(version.releases, Len(version.releases))) :
       /\ releases' = withIds(version.releases, ids)
       /\ autoSave(withIds(version.releases, ids))
       /\ issued' = issued \o ids
  /\ UNCHANGED <<undoStack, redoStack, historyVars, exportVars, parserVars, diffVars,
                 showRestorePrompt, autosave>>

DeleteVersion(id) ==
  /\ Called
  /\ ~compareMode
  /\ versionHistory' = deleteVersion(versionsText(versionHistory), id)
  /\ UNCHANGED <<saveVars, releases, undoStack, redoStack,
                 compareVersions, versionDiff, compareMode,
                 clock, issued, exportVars, parserVars, diffVars>>

\* The compare button, there while the history holds two snapshots: it
\* turns compare mode on, and off through exitCompareMode.
ToggleCompareMode ==
  /\ Called
  /\ Len(versionHistory) >= 2
  /\ compareMode' = ~compareMode
  /\ IF compareMode
       THEN compareVersions' = <<<<>>, <<>>>> /\ versionDiff' = <<>>
       ELSE UNCHANGED <<compareVersions, versionDiff>>
  /\ UNCHANGED <<saveVars, releases, undoStack, redoStack,
                 versionHistory, clock, issued, exportVars,
                 parserVars, diffVars>>

\* The versions button: exitCompareMode.
ExitCompareMode ==
  /\ Called
  /\ compareMode' = FALSE /\ compareVersions' = <<<<>>, <<>>>> /\ versionDiff' = <<>>
  /\ UNCHANGED <<saveVars, releases, undoStack, redoStack,
                 versionHistory, clock, issued, exportVars,
                 parserVars, diffVars>>

\* A click on a snapshot of the list while compare mode is on.
SelectForCompare(version) ==
  /\ Called
  /\ compareMode
  /\ LET after == selectForCompare(compareVersions, versionDiff, version)
     IN compareVersions' = after.slots /\ versionDiff' = after.diff
  /\ UNCHANGED <<saveVars, releases, undoStack, redoStack,
                 versionHistory, compareMode, clock, issued,
                 exportVars, parserVars, diffVars>>

SetExportFormat(format) ==
  /\ Called
  /\ exportFormat' = format
  /\ UNCHANGED <<saveVars, releases, undoStack, redoStack,
                 issued, historyVars, stage, output, decoded,
                 parserVars, diffVars>>

\* copyToClipboard, downloadFile: the text getExport returns.
Export ==
  /\ Called
  /\ stage' = "exported"
  /\ output' = getExport(releases, exportFormat)
  /\ UNCHANGED <<saveVars, releases, undoStack, redoStack,
                 issued, historyVars, decoded, exportFormat,
                 parserVars, diffVars>>

ChangeIds(releaseIndex) ==
  {releases[releaseIndex].changes[j].id : j \in DOMAIN releases[releaseIndex].changes}

\* The template the run applies: the first.
TemplatePool == {templates[1]}

\* Editing, snapshots taken and restored on the way.
NextEditor ==
  \/ AddRelease
  \/ \E index \in DOMAIN releases, updates \in UpdatePool : UpdateRelease(index, updates)
  \/ \E index \in DOMAIN releases : DeleteRelease(index)
  \/ \E index \in DOMAIN releases, type \in TypePool, ids \in IdRuns(1) :
       AddChange(index, type, ids[1])
  \/ \E index \in DOMAIN releases :
       \E id \in ChangeIds(index), description \in DescriptionPool :
         UpdateChange(index, id, description)
  \/ \E index \in DOMAIN releases : \E id \in ChangeIds(index) : DeleteChange(index, id)
  \/ Undo
  \/ Redo
  \/ \E template \in TemplatePool : ApplyTemplate(template)
  \/ ClearAll
  \/ SaveVersion(<<>>)
  \/ \E i \in DOMAIN versionHistory : RestoreVersion(versionHistory[i])

SpecEditor == InitEditor /\ [][NextEditor]_vars

InitHistory == InitPage(MaxClicks)

\* The version history and compare mode, the ReleaseSet edited between the
\* snapshots.
NextHistory ==
  \/ \E index \in DOMAIN releases, updates \in UpdatePool : UpdateRelease(index, updates)
  \/ \E index \in DOMAIN releases : AddChange(index, "added", Id(Len(issued) + 1))
  \/ \E index \in DOMAIN releases :
       \E id \in ChangeIds(index), description \in DescriptionPool :
         UpdateChange(index, id, description)
  \/ \E versionName \in NamePool : SaveVersion(versionName)
  \/ \E i \in DOMAIN versionHistory : DeleteVersion(versionHistory[i].id)
  \/ ToggleCompareMode
  \/ ExitCompareMode
  \/ \E i \in DOMAIN versionHistory : SelectForCompare(versionHistory[i])

SpecHistory == InitHistory /\ [][NextHistory]_vars

\* ------------------------------------------------ the diffs of the history
\* The items a diff reports as added or removed.
ChangedItemsOf(d) ==
  {d.added[k] : k \in DOMAIN d.added} \cup {d.removed[k] : k \in DOMAIN d.removed}

\* C14: for every pair of snapshots of the history, which saveVersion
\* stored from the editor's states, diffVersions reports no added and no
\* removed item whose description is empty after trimming.
C14_NoBlankItemInDiff ==
  \A i, j \in DOMAIN versionHistory :
    \A item \in ChangedItemsOf(diffVersions(versionHistory[i], versionHistory[j])) :
      trim(item.change) # <<>>

\* ---------------------------------------------------------------- the export
\* The changes a release of the editor holds when an export is asked for:
\* descriptions filled, empty, blank and with spaces around the text.
ExportChangeLists ==
  {<<>>,
   <<[type |-> "added", description |-> <<>>]>>,
   <<[type |-> "fixed", description |-> <<" ", "\t">>]>>,
   <<[type |-> "added", description |-> <<" ", "y", " ">>]>>,
   <<[type |-> "added", description |-> <<"x">>], [type |-> "fixed", description |-> <<" ">>],
     [type |-> "changed", description |-> <<"z">>]>>}

\* A release of the editor with these changes, ids handed out from `from`
\* on.
ExportRelease(version, list, from) ==
  [version |-> version, date |-> Today,
   changes |-> [j \in DOMAIN list |->
                  [id |-> Id(from + j), type |-> list[j].type,
                   description |-> list[j].description]]]

\* The editor holds one release or two when the export is asked for.
InitExport ==
  /\ NoParse /\ NoDiff
  /\ \E first \in ExportChangeLists, second \in ExportChangeLists, n \in 1..2 :
       releases = SubSeq(<<ExportRelease(<<"1", ".", "1", ".", "0">>, first, TemplateIdCount),
                           ExportRelease(<<"1", ".", "0", ".", "0">>, second, TemplateIdCount + Len(first))>>,
                         1, n)
  /\ stage = "none" /\ output = <<>> /\ decoded = <<>>
  /\ undoStack = <<>> /\ redoStack = <<>> /\ versionHistory = <<>>
  /\ compareVersions = <<<<>>, <<>>>> /\ versionDiff = <<>>
  /\ exportFormat = "markdown" /\ compareMode = FALSE
  /\ issued = [k \in 1..(TemplateIdCount + changeCount(releases, Len(releases))) |-> Id(k)]
  /\ clock = 0
  /\ left = MaxCalls
  /\ NoSave

NextExport ==
  \/ \E format \in {"markdown", "json", "html"} : SetExportFormat(format)
  \/ Export

SpecExport == InitExport /\ [][NextExport]_vars

\* The changes of a release that are not blank, and the releases that have
\* one, by their positions.
FilledChanges(r) == {j \in DOMAIN r.changes : r.changes[j].description \notin {<<>>, <<" ">>, <<" ", "\t">>}}

FilledReleases == {i \in DOMAIN releases : FilledChanges(releases[i]) # {}}

\* The live ReleaseSet without its blank entries and without the releases
\* left with no entry, everything else in its place.
ExportedReleases ==
  [k \in 1..Cardinality(FilledReleases) |->
     LET r == releases[Nth(FilledReleases, k)]
     IN [version |-> r.version, date |-> r.date,
         changes |-> [m \in 1..Cardinality(FilledChanges(r)) |->
                        r.changes[Nth(FilledChanges(r), m)]]]]

Rendered(format, rs) ==
  IF format = "markdown" THEN generateMarkdown(rs)
  ELSE IF format = "json" THEN generateJSON(rs)
  ELSE generateHTML(rs)

\* C15: the text every export gives is the rendering, in the format
\* chosen, of the live ReleaseSet without the entries whose description is
\* empty or only white space and without the releases that are left with
\* no change; the other releases and entries are handed over in their
\* order, their fields unchanged.
C15_ExportFiltersBlank ==
  [][Export => output' = Rendered(exportFormat, ExportedReleases)]_vars

\* An export in a format chosen before it, of two releases: the first one
\* loses a blank entry and keeps two, the second has blank entries only.
C15_Witness ==
  /\ stage = "exported" /\ exportFormat = "json"
  /\ Len(releases) = 2 /\ Len(releases[1].changes) = 3 /\ Len(releases[2].changes) = 1
  /\ Len(ExportedReleases) = 1 /\ Len(ExportedReleases[1].changes) = 2
  /\ output = generateJSON(ExportedReleases)

\* ------------------------------------------------- the snapshots are kept
\* C16: a step of the editor leaves the releases of every snapshot of the
\* history as they are, and the snapshot a step stores holds the live
\* ReleaseSet of that moment: the releases of a snapshot are, after any
\* number of later edits, undos, redos, templates, clearings, restores and
\* further saves, the live ReleaseSet as it was when the snapshot was saved.
C16_SnapshotsKeepReleases ==
  [][/\ \A i \in DOMAIN versionHistory :
          /\ i \in DOMAIN versionHistory'
          /\ versionHistory'[i].releases = versionHistory[i].releases
     /\ \A i \in DOMAIN versionHistory' \ DOMAIN versionHistory :
          versionHistory'[i].releases = releases]_vars

\* A snapshot of the first ReleaseSet, a change of the live ReleaseSet
\* after it and a second snapshot that differs from the first.
C16_Witness ==
  /\ Len(versionHistory) = 2
  /\ versionHistory[1].releases = FirstReleases
  /\ versionHistory[2].releases # FirstReleases
  /\ releases # FirstReleases

\* ------------------------------------------------------------ the entry ids
\* The ids of the entries of the live ReleaseSet, release after release.
RECURSIVE LiveIds(_)
LiveIds(n) ==
  IF n = 0 THEN <<>>
  ELSE LiveIds(n - 1) \o [j \in DOMAIN releases[n].changes |-> releases[n].changes[j].id]

NoRepeat(ids) == \A i, j \in DOMAIN ids : i # j => ids[i] # ids[j]

\* C17: every id generateId returns differs from every id it returned
\* before, and no two entries of the live ReleaseSet have the same id.
C17_IdsNeverReused == NoRepeat(issued) /\ NoRepeat(LiveIds(Len(releases)))

\* ------------------------------------------------- the date of a header
\* Whether the n characters of t from the i-th on are four digits, a
\* separator, one or two digits, a separator and one or two digits.
DateLike(t, i, n) ==
  \E a \in 1..2, b \in 1..2 :
    /\ n = 6 + a + b /\ i + n - 1 <= Len(t)
    /\ \A k \in (i..(i + 3)) \cup ((i + 5)..(i + 4 + a)) \cup ((i + 6 + a)..(i + 5 + a + b)) :
         t[k] \in Digits
    /\ t[i + 4] \in {"-", "/"} /\ t[i + 5 + a] \in {"-", "/"}

\* The first date-like substring of t, the longest one where it starts,
\* its slashes replaced; the current date when t has none.
FirstDateOf(t) ==
  LET starts == {i \in 1..Len(t) : \E n \in 8..10 : DateLike(t, i, n)}
      i0 == CHOOSE i \in starts : \A j \in starts : i <= j
      n0 == CHOOSE n \in 8..10 : DateLike(t, i0, n) /\ \A m \in 8..10 : DateLike(t, i0, m) => m <= n
  IN IF starts = {} THEN Today
     ELSE [k \in 1..n0 |-> IF t[i0 + k - 1] = "/" THEN "-" ELSE t[i0 + k - 1]]

\* C18: a version header opens a release, dated or not: the release has the
\* version number of the header, and its date is the first date-like
\* substring of the text that follows the version number, every '/'
\* replaced by '-', or the current date when that text has none.
C18_HeaderDate ==
  probe.kind = "date" =>
    /\ Len(parsed) = 1
    /\ \E prefix \in HeaderPrefixPool, version \in HeaderVersionPool :
         lines[1] = prefix \o version \o probe.word /\ parsed[1].version = version
    /\ parsed[1].date = FirstDateOf(probe.word)

\* C18 witness: the text after the version number holds a run of digits
\* and dashes that is no date before a date written with slashes, and the
\* release has that date with dashes.
C18_Witness ==
  /\ probe.kind = "date"
  /\ probe.word = <<" ", "2", "0", "2", "4", "-", "0", "0", "1", "-", "0", "5", " ", "t", "h", "e", "n", " ", "2", "0", "2", "3", "/", "2", "/", "3">>
  /\ Len(parsed) = 1 /\ parsed[1].date = <<"2", "0", "2", "3", "-", "2", "-", "3">>

\* A header with no date after the version number: the release is opened
\* and dated today.
C18_WitnessToday ==
  probe.kind = "date" /\ probe.word = <<>> /\ Len(parsed) = 1 /\ parsed[1].date = Today

\* ------------------------------------------------- the active category
IsCategoryHeader(line) == ~IsVersionHeader(line) /\ sectionMatch(trim(line)) # ""

\* The category in force at line j of the release opened at line h: that of
\* the last category header between the two, 'added' when there is none.
ActiveCategory(h, j) ==
  LET between == {s \in (h + 1)..(j - 1) : IsCategoryHeader(lines[s])}
  IN IF between = {} THEN "added"
     ELSE sectionMatch(trim(lines[CHOOSE s \in between : \A q \in between : q <= s]))

\* C19: the changes of a release are its list items and nothing else (a
\* category header adds none), and the category of each is what the keyword
\* rules make of the category in force at its line: with no rule matching,
\* the category of the last category header read since the version header
\* of its release, 'added' when there is none, whatever category headers
\* were read before that version header.
C19_ActiveCategoryPerRelease ==
  LET hs == HeaderLines
      is == ItemLines
      kept == {h \in hs : ItemsOf(hs, is, h) # {}}
  IN /\ Len(parsed) = Cardinality(kept)
     /\ \A k \in 1..Len(parsed) :
          LET h == Nth(kept, k)
              items == ItemsOf(hs, is, h)
          IN /\ Len(parsed[k].changes) = Cardinality(items)
             /\ \A m \in 1..Len(parsed[k].changes) :
                  LET description == trim(listItemPattern(trim(lines[Nth(items, m)])).text)
                      active == ActiveCategory(h, Nth(items, m))
                  IN parsed[k].changes[m].type
                       = IF description = <<"m", "i", "s", "c">> THEN active
                         ELSE detectType(active, description)

\* C19 witness: a category header stands before a version header, and the
\* list item after that version header, which no keyword rule matches, is
\* 'added'.
C19_Witness ==
  /\ Len(lines) >= 3 /\ Len(parsed) = 1 /\ Len(parsed[1].changes) = 1
  /\ IsCategoryHeader(lines[Len(lines) - 2]) /\ sectionMatch(trim(lines[Len(lines) - 2])) = "fixed"
  /\ IsVersionHeader(lines[Len(lines) - 1])
  /\ trim(listItemPattern(trim(lines[Len(lines)])).text) = <<"m", "i", "s", "c">>
  /\ parsed[1].changes[1].type = "added"

\* The same item right after the category header of its own release takes
\* the category of the header.
C19_WitnessOwnHeader ==
  /\ Len(lines) = 3 /\ Len(parsed) = 1 /\ Len(parsed[1].changes) = 1
  /\ IsVersionHeader(lines[1]) /\ IsCategoryHeader(lines[2])
  /\ trim(listItemPattern(trim(lines[3])).text) = <<"m", "i", "s", "c">>
  /\ parsed[1].changes[1].type = "fixed"

\* ------------------------------------------------ the order of a comparison
\* The diff shown after a click on snapshot a and a click on snapshot b,
\* nothing being selected before.
DiffAfterClicks(a, b) ==
  LET first == selectForCompare(<<<<>>, <<>>>>, <<>>, a)
  IN selectForCompare(first.slots, first.diff, b).diff

\* C20: for any two snapshots of the history, told apart by their ids, the
\* diff shown after selecting the one and then the other is the diff shown
\* after selecting them the other way round.
C20_CompareOrderFree ==
  \A i, j \in DOMAIN versionHistory :
    versionHistory[i].id # versionHistory[j].id =>
      DiffAfterClicks(versionHistory[i], versionHistory[j])
        = DiffAfterClicks(versionHistory[j], versionHistory[i])

\* ------------------------------------------------ the stored version history
\* The history a user has filled before the run: n snapshots of the first
\* ReleaseSet, saved one millisecond apart under the default name.
StoredHistory(n) ==
  [i \in 1..n |-> VersionSnapshot(<<"s", "7", "n", "2", "p">> \o twoDigits(i) \o twoDigits(i - 1),
                                  snapshotName(<<>>, FirstReleases), FirstReleases,
                                  toISOString(i))]

\* A run of saveVersion and deleteVersion over a stored history is cut
\* after MaxSaves calls.
MaxSaves == 2

\* The page mounted over a history that is full or one short of it.
InitVersions ==
  /\ NoParse /\ NoDiff
  /\ releases = FirstReleases /\ stage = "none" /\ output = <<>> /\ decoded = <<>>
  /\ undoStack = <<>> /\ redoStack = <<>>
  /\ \E n \in {HistoryLimit - 1, HistoryLimit} :
       versionHistory = StoredHistory(n) /\ clock = n
  /\ compareVersions = <<<<>>, <<>>>> /\ versionDiff = <<>>
  /\ exportFormat = "markdown" /\ compareMode = FALSE
  /\ issued = TemplateIds
  /\ left = MaxSaves
  /\ NoSave

\* The snapshots whose delete button is clicked: the oldest, the one after
\* it and the newest.
DeletePool == {1, 2, Len(versionHistory)} \cap DOMAIN versionHistory

NextVersions ==
  \/ \E versionName \in NamePool : SaveVersion(versionName)
  \/ \E i \in DeletePool : DeleteVersion(versionHistory[i].id)

SpecVersions == InitVersions /\ [][NextVersions]_vars

\* The snapshots are in the order of their createdAt, none before an
\* earlier one of the list.
InCreationOrder(history) ==
  \A i, j \in DOMAIN history : i < j => ~earlier(history[j].createdAt, history[i].createdAt)

\* The history without its last snapshot.
ButLast(history) == SubSeq(history, 1, Len(history) - 1)

\* C21: the stored history holds at most 10 snapshots, in creation order;
\* saveVersion (the one call after which the history is not shorter) puts the
\* new snapshot, holding the live ReleaseSet, last, and when the history held
\* 10 it drops the oldest one and keeps the other nine as they were, in their
\* order; deleteVersion(id) removes what has that id and keeps every snapshot
\* of another id, in its place among the others.
C21_HistoryOfTen ==
  /\ [](Len(versionHistory) <= HistoryLimit /\ InCreationOrder(versionHistory))
  /\ [][Len(versionHistory') >= Len(versionHistory) =>
          /\ versionHistory' # <<>>
          /\ versionHistory'[Len(versionHistory')].releases = releases
          /\ versionHistory'[Len(versionHistory')].createdAt = toISOString(clock')
          /\ ButLast(versionHistory') =
               (IF Len(versionHistory) = HistoryLimit THEN Tail(versionHistory)
                ELSE versionHistory)]_vars
  /\ [][\A i \in DeletePool :
          Len(versionHistory') < Len(versionHistory) /\ DeleteVersion(versionHistory[i].id) =>
            versionHistory' = SelectSeq(versionHistory,
                                        LAMBDA v : v.id # versionHistory[i].id)]_vars

\* A snapshot was saved into a full history: the second of the stored ones
\* is now the oldest.
C21_Witness ==
  /\ Len(versionHistory) = HistoryLimit
  /\ left = MaxSaves - 1
  /\ versionHistory[1].createdAt = toISOString(2)
  /\ versionHistory[HistoryLimit].createdAt = toISOString(clock)



\* ------------------------------------------------------ the undo history
\* C22: every step that changes the live ReleaseSet, undo and redo apart,
\* pushes the ReleaseSet it replaced on the undo stack and empties the redo
\* stack.
C22_EveryChangeRecorded ==
  [][(releases' # releases /\ ~Undo /\ ~Redo) =>
       /\ undoStack' # <<>>
       /\ undoStack'[Len(undoStack')] = releases
       /\ redoStack' = <<>>]_vars

\* ------------------------------------------------------------ compare mode
\* Three snapshots a user has saved before the run: the first ReleaseSet,
\* the same with one change, and that one with its version renamed.
EditedReleases == updateChange(addChange(FirstReleases, 1, "added", Id(1)), 1, Id(1), <<"x">>)

RenamedReleases == updateRelease(EditedReleases, 1, [field |-> "version", value |-> <<"2", ".", "0">>])

ComparedHistory ==
  <<VersionSnapshot(<<"s", "7", "n", "2", "p", "0", "1", "0", "0">>, <<"f", "i", "r", "s", "t">>, FirstReleases, toISOString(1)),
    VersionSnapshot(<<"s", "7", "n", "2", "p", "0", "2", "0", "1">>, <<"e", "d", "i", "t", "e", "d">>, EditedReleases, toISOString(2)),
    VersionSnapshot(<<"s", "7", "n", "2", "p", "0", "3", "0", "2">>, <<"r", "e", "n", "a", "m", "e", "d">>, RenamedReleases, toISOString(3))>>

\* The page mounted over these snapshots, the list of versions open.
InitCompare ==
  /\ NoParse /\ NoDiff
  /\ releases = FirstReleases /\ stage = "none" /\ output = <<>> /\ decoded = <<>>
  /\ undoStack = <<>> /\ redoStack = <<>>
  /\ versionHistory = ComparedHistory /\ clock = Len(ComparedHistory)
  /\ compareVersions = <<<<>>, <<>>>> /\ versionDiff = <<>>
  /\ exportFormat = "markdown" /\ compareMode = FALSE
  /\ issued = TemplateIds
  /\ left = MaxClicks
  /\ NoSave

\* The clicks on the list of versions, snapshots saved and deleted between
\* them.
NextCompare ==
  \/ ToggleCompareMode
  \/ ExitCompareMode
  \/ \E i \in DOMAIN versionHistory : SelectForCompare(versionHistory[i])
  \/ SaveVersion(<<>>)
  \/ \E i \in DOMAIN versionHistory : DeleteVersion(versionHistory[i].id)

SpecCompare == InitCompare /\ [][NextCompare]_vars

\* Both slots of compareVersions are filled.
BothSelected == compareVersions[1] # <<>> /\ compareVersions[2] # <<>>

\* C23: in compare mode a diff is held exactly when two snapshots are
\* selected, and it is the diff of the two, the one created first as older.
C23_DiffIffTwoSelected ==
  compareMode =>
    /\ (versionDiff # <<>>) <=> BothSelected
    /\ BothSelected => versionDiff = <<compareDiff(compareVersions[1][1], compareVersions[2][1])>>





\* --------------------------------------------------------------- auto-save
\* The timer of the auto-save effect fires, one second after the render
\* that set it: saveReleases, setHasUnsavedChanges(false).
TimerFires ==
  /\ timer # <<>>
  /\ autosave' = <<saveReleases(timer[1])>>
  /\ hasUnsavedChanges' = FALSE
  /\ timer' = <<>>
  /\ UNCHANGED <<showRestorePrompt, releases, undoStack, redoStack, issued, left, historyVars,
                 exportVars, parserVars, diffVars>>

\* restoreSaved, the 'Restore' button of the prompt.
RestoreSaved ==
  /\ Called
  /\ showRestorePrompt
  /\ LET saved == getSavedReleases(autosave)
     IN IF saved # <<>>
          THEN releases' = saved[1] /\ autoSave(saved[1])
          ELSE UNCHANGED <<releases, timer, hasUnsavedChanges>>
  /\ showRestorePrompt' = FALSE
  /\ UNCHANGED <<autosave, undoStack, redoStack, issued, historyVars, exportVars, parserVars,
                 diffVars>>

\* discardSaved, the 'Start Fresh' button of the prompt.
DiscardSaved ==
  /\ Called
  /\ showRestorePrompt
  /\ autosave' = <<>>
  /\ showRestorePrompt' = FALSE
  /\ UNCHANGED <<releases, timer, hasUnsavedChanges, undoStack, redoStack, issued, historyVars,
                 exportVars, parserVars, diffVars>>

\* The descriptions typed into a field, the empty one of a cleared field
\* among them.
TypedPool == {<<"x">>, <<" ">>, <<>>}

\* Changes added, typed, cleared and deleted, the timer firing when one is
\* pending.
NextAutoSave ==
  \/ \E index \in DOMAIN releases : AddChange(index, "added", Id(Len(issued) + 1))
  \/ \E index \in DOMAIN releases :
       \E id \in ChangeIds(index), description \in TypedPool :
         UpdateChange(index, id, description)
  \/ \E index \in DOMAIN releases : \E id \in ChangeIds(index) : DeleteChange(index, id)
  \/ AddRelease
  \/ Undo
  \/ Redo
  \/ ClearAll
  \/ TimerFires

\* A pending timer fires: nothing but a new render clears it.
SpecAutoSave == InitEditor /\ [][NextAutoSave]_vars /\ WF_vars(TimerFires)

\* C24: once the flag is raised, the run comes to a point from which the
\* flag is down and the stored copy is the live ReleaseSet.  (The edits of a
\* run are finite, so the ReleaseSet stops changing in every run.)
C24_AutoSaveSettles ==
  [](hasUnsavedChanges =>
       <>[](~hasUnsavedChanges /\ getSavedReleases(autosave) = <<releases>>))



\* ------------------------------------------------------ the renames of a diff
\* C25: in diff.modified every version of older is the oldVersion of at most
\* one entry and every version of newer the newVersion of at most one.
C25_RenamesOneToOne ==
  stage = "diffed" =>
    /\ \A v \in VersionsOf(older) :
         Cardinality({k \in DOMAIN diff.modified : diff.modified[k].oldVersion = v}) <= 1
    /\ \A v \in VersionsOf(newer) :
         Cardinality({k \in DOMAIN diff.modified : diff.modified[k].newVersion = v}) <= 1

\* ------------------------------------------- what a diff does not depend on
\* The two snapshots hold the same triples of version, category and
\* description and the same version strings.
SameContent ==
  /\ Triples(older.releases) = Triples(newer.releases)
  /\ VersionsOf(older) = VersionsOf(newer)

\* C26: two snapshots with equal sets of triples and equal sets of version
\* strings have an empty diff in both directions, whatever the order of
\* their releases and changes, repeated changes, ids, dates, names and
\* timestamps.
C26_DiffOfContentOnly ==
  stage = "diffed" /\ SameContent =>
    /\ diff = EmptyDiff
    /\ diffVersions(newer, older) = EmptyDiff

\* Two snapshots of the same content were compared, a release of the one
\* with another date than the release of that version in the other, the
\* releases in another order, or a change repeated.
C26_Witness ==
  /\ stage = "diffed" /\ SameContent
  /\ Triples(older.releases) # {}
  /\ older.id # newer.id
  /\ \E i \in DOMAIN older.releases, j \in DOMAIN newer.releases :
       /\ older.releases[i].version = newer.releases[j].version
       /\ older.releases[i].date # newer.releases[j].date

C26_WitnessOrder ==
  /\ stage = "diffed" /\ SameContent
  /\ Len(older.releases) = 2 /\ Len(newer.releases) = 2
  /\ older.releases[1].version # older.releases[2].version
  /\ older.releases[1].version = newer.releases[2].version
  /\ older.releases[1].changes # <<>>
  /\ \E j \in DOMAIN newer.releases :
       Len(newer.releases[j].changes) = 2
         /\ newer.releases[j].changes[1].description = newer.releases[j].changes[2].description
         /\ \E i \in DOMAIN older.releases :
              /\ older.releases[i].version = newer.releases[j].version
              /\ Len(older.releases[i].changes) = 1

\* -------------------------------------------------------- the undo stacks
\* The ReleaseSet after k edits of the version field: '1.0.k'.
Versioned(k) ==
  updateRelease(FirstReleases, 1, [field |-> "version", value |-> <<"1", ".", "0", ".">> \o numberText(k)])

\* The page as it is mounted, and after n edits of the version field with
\* nothing undone: the n states before the live one on the undo stack.
InitUndo ==
  /\ NoParse /\ NoDiff
  /\ stage = "none" /\ output = <<>> /\ decoded = <<>>
  /\ \E n \in {0, UndoKept, UndoKept + 1} :
       /\ undoStack = [k \in 1..n |-> Versioned(k - 1)]
       /\ releases = Versioned(n)
  /\ redoStack = <<>> /\ versionHistory = <<>>
  /\ compareVersions = <<<<>>, <<>>>> /\ versionDiff = <<>>
  /\ exportFormat = "markdown" /\ compareMode = FALSE
  /\ issued = TemplateIds /\ clock = 0
  /\ left = MaxCalls
  /\ NoSave

\* The version typed again, as it is or as another one.
RetypedPool ==
  {[field |-> "version", value |-> releases[1].version],
   [field |-> "version", value |-> <<"2", ".", "0">>],
   [field |-> "date", value |-> <<"2", "0", "2", "4", "-", "0", "1", "-", "0", "5">>]}

NextUndo ==
  \/ \E updates \in RetypedPool : UpdateRelease(1, updates)
  \/ AddRelease
  \/ \E index \in DOMAIN releases : AddChange(index, "added", Id(Len(issued) + 1))
  \/ \E index \in DOMAIN releases :
       \E id \in ChangeIds(index), description \in TypedPool :
         UpdateChange(index, id, description)
  \/ \E index \in DOMAIN releases : \E id \in ChangeIds(index) : DeleteChange(index, id)
  \/ \E index \in DOMAIN releases : DeleteRelease(index)
  \/ Undo
  \/ Redo

SpecUndo == InitUndo /\ [][NextUndo]_vars

\* C27: the undo stack holds at most 20 states, and so do the undo and the
\* redo stack together; a tracked edit that changes the ReleaseSet pushes
\* the ReleaseSet it replaced and, made with 20 states on the stack, drops
\* the oldest; an update that leaves the ReleaseSet as it was leaves both
\* stacks as they were.
C27_UndoStackOfTwenty ==
  /\ [](Len(undoStack) <= UndoKept + 1 /\ Len(undoStack) + Len(redoStack) <= UndoKept + 1)
  /\ [][(~Undo /\ ~Redo /\ releases' # releases) =>
          /\ redoStack' = <<>>
          /\ undoStack' = Append(IF Len(undoStack) = UndoKept + 1 THEN Tail(undoStack)
                                 ELSE undoStack,
                                 releases)]_vars
  /\ [][(~Undo /\ ~Redo /\ releases' = releases) =>
          UNCHANGED <<undoStack, redoStack>>]_vars

\* An edit was made with 20 states on the undo stack: the second of them is
\* now the oldest.
C27_Witness ==
  /\ left = MaxCalls - 1
  /\ Len(undoStack) = UndoKept + 1
  /\ undoStack[1] = Versioned(1)
  /\ undoStack[UndoKept + 1] = Versioned(UndoKept + 1)

\* The version was typed again as it was, with states on the redo stack.
C27_WitnessSame ==
  /\ left = MaxCalls - 2
  /\ Len(redoStack) = 1
  /\ releases = Versioned(UndoKept)
  /\ Len(undoStack) = UndoKept

\* C28: after a tracked edit that changed the live ReleaseSet from A to B,
\* undo() makes it A again, and redo() after that undo makes it B and leaves
\* both stacks as they were before the undo; undo() with an empty undo stack
\* and redo() with an empty redo stack change nothing.
C28_UndoRedoInverse ==
  /\ [][(~Undo /\ ~Redo /\ releases' # releases) =>
          LET undone == undo(releases', undoStack', redoStack')
              redone == redo(undone.releases, undone.undoStack, undone.redoStack)
          IN /\ undone.releases = releases
             /\ redone.releases = releases'
             /\ redone.undoStack = undoStack'
             /\ redone.redoStack = redoStack']_vars
  /\ [][(Undo /\ undoStack = <<>>) => UNCHANGED <<releases, undoStack, redoStack>>]_vars
  /\ [][(Redo /\ redoStack = <<>>) => UNCHANGED <<releases, undoStack, redoStack>>]_vars

\* The first edit of the page was undone: the ReleaseSet is the first one,
\* the edited one is on the redo stack.
C28_Witness ==
  /\ left = MaxCalls - 2
  /\ undoStack = <<>> /\ Len(redoStack) = 1
  /\ releases = FirstReleases /\ redoStack[1] # FirstReleases

\* undo() was called with an empty undo stack.
C28_WitnessEmpty ==
  /\ left = MaxCalls - 1
  /\ undoStack = <<>> /\ redoStack = <<>> /\ releases = FirstReleases



\* -------------------------------------------------- the live ReleaseSet
\* The page mounted with an empty storage, or over the auto-saved copy and
\* the snapshot of a session before: the prompt is shown when the copy has
\* content (lines 320-334).
InitLive ==
  /\ NoParse /\ NoDiff
  /\ releases = FirstReleases /\ stage = "none" /\ output = <<>> /\ decoded = <<>>
  /\ undoStack = <<>> /\ redoStack = <<>>
  /\ compareVersions = <<<<>>, <<>>>> /\ versionDiff = <<>>
  /\ exportFormat = "markdown" /\ compareMode = FALSE
  /\ issued = TemplateIds
  /\ left = MaxCalls
  /\ hasUnsavedChanges = FALSE /\ timer = <<>>
  /\ \/ /\ autosave = <<>> /\ showRestorePrompt = FALSE
        /\ versionHistory = <<>> /\ clock = 0
     \/ /\ autosave = <<saveReleases(EditedReleases)>>
        /\ showRestorePrompt = hasContent(getSavedReleases(autosave)[1])
        /\ versionHistory = SubSeq(ComparedHistory, 1, 1) /\ clock = 1

\* Every handler that sets the live ReleaseSet or stores a copy of it.
NextLive ==
  \/ AddRelease
  \/ \E index \in DOMAIN releases : DeleteRelease(index)
  \/ \E index \in DOMAIN releases : AddChange(index, "added", Id(Len(issued) + 1))
  \/ \E index \in DOMAIN releases :
       \E id \in ChangeIds(index) : UpdateChange(index, id, <<"x">>)
  \/ \E index \in DOMAIN releases : \E id \in ChangeIds(index) : DeleteChange(index, id)
  \/ Undo
  \/ Redo
  \/ \E template \in TemplatePool : ApplyTemplate(template)
  \/ ClearAll
  \/ RestoreSaved
  \/ DiscardSaved
  \/ TimerFires
  \/ SaveVersion(<<>>)
  \/ \E i \in DOMAIN versionHistory : RestoreVersion(versionHistory[i])

SpecLive == InitLive /\ [][NextLive]_vars

\* C29: the live ReleaseSet, every state on the undo and redo stacks and
\* every stored snapshot hold at least one release.
C29_NeverEmpty ==
  /\ Len(releases) >= 1
  /\ \A k \in DOMAIN undoStack : Len(undoStack[k]) >= 1
  /\ \A k \in DOMAIN redoStack : Len(redoStack[k]) >= 1
  /\ \A k \in DOMAIN versionHistory : Len(versionHistory[k].releases) >= 1

\* A release was added and deleted again: one release is left, and the
\* undo stack holds the state with two.
C29_Witness ==
  /\ Len(releases) = 1
  /\ undoStack # <<>>
  /\ \E k \in DOMAIN undoStack : Len(undoStack[k]) = 2



\* ------------------------------------------------- what the parser returns
\* C30: every release parseChangelogText returns has a version of two or
\* three runs of digits with '.' between them, and every change of it a
\* description that is not empty and neither starts nor ends with white
\* space, and one of the six categories.
C30_WellFormedOutput ==
  \A k \in DOMAIN parsed :
    /\ parsed[k].version # <<>>
    /\ IsVersionNumber(parsed[k].version)
    /\ \A j \in DOMAIN parsed[k].changes :
         LET d == parsed[k].changes[j].description
         IN /\ d # <<>>
            /\ d[1] \notin WhiteSpace /\ d[Len(d)] \notin WhiteSpace
            /\ parsed[k].changes[j].type \in ChangeTypeSet

\* A bullet with nothing after the marker and the space was read: the
\* release holds the item before it and no other.
C30_Witness ==
  /\ probe.kind = "bullet" /\ probe.word = <<>>
  /\ At(lines[3], Len(lines[3])) \in WhiteSpace \cup Bullets
  /\ Len(parsed) = 1 /\ Len(parsed[1].changes) = 1

\* A bullet whose text ends with white space was read: the release holds
\* two items.
C30_WitnessPadded ==
  /\ probe.kind = "bullet" /\ probe.word = <<"a", " ", " ", "b", "\t">>
  /\ Len(parsed) = 1 /\ Len(parsed[1].changes) = 2

====
